---------------------------- MODULE Spec2Model ----------------------------
(***************************************************************************)
(* A model of the bloark / twb warehouse pipeline:                         *)
(*   - the warehouse allocator        (src/twb/warehouse.py)               *)
(*   - Builder.build() and its stages (src/twb/builder.py)                 *)
(*   - Modifier.start() and its stage (src/bloark/modifier.py)             *)
(*                                                                         *)
(* Files are byte sequences.  A byte is either the newline NL or the body  *)
(* of one JSON record (a record body is one byte wide), so f.tell() is the *)
(* length of what has been written and get_file_size() the length of the   *)
(* file; one byte of the model stands for one size unit of max_size.       *)
(* Warehouse base names are modelled by their index: the name is           *)
(* prefix + zfill(index, 5), which is one-to-one on indices, and min() of  *)
(* names is min() of indices below 100000.                                 *)
(*                                                                         *)
(* Three specifications share the variables:                               *)
(*   SpecWarehouse  concurrent callers of the allocator alone              *)
(*   Spec           a run of Builder.build() or of Modifier.start()        *)
(*   FairSpec       Spec with the fairness the scheduler gives             *)
(***************************************************************************)
EXTENDS Integers, Sequences, FiniteSets, TLC

(* ------------------------------ bounds -------------------------------- *)
MaxClients == 2        \* concurrent callers of the allocator (SpecWarehouse)
MaxCreated == 2        \* SpecWarehouse: create_warehouse() calls in one run
MaxBulkFiles == 1      \* files handed to one bulk_assign (SpecWarehouse)
MaxWrite == 1          \* SpecWarehouse: bytes a holder appends in one write
MaxChain == 2          \* SpecChain: profiles in the Modifier's chain
MaxFileLen == 4        \* SpecLines: bytes of the file whose lines are located
MaxAgain == 1          \* SpecRelease: releases a caller makes of a warehouse it does not hold

MaxProc == 2           \* num_proc is drawn from 1..MaxProc
MaxArchives == 2       \* Builder: preloaded archives
MaxArticles == 1       \* Builder: articles in one XML file
MaxRevs == 1           \* Builder: revisions of one article (0..MaxRevs)
BuilderMaxSize == 6    \* Builder: max_size, in bytes (two one-revision articles)
SplitMaxSize == 2      \* Builder: the max_size of the runs that split by size
MaxExcess == 1         \* the counter is followed up to num_proc + MaxExcess
MaxInputs == 2         \* Modifier: preloaded warehouse pairs
MaxSegments == 2       \* Modifier: segments in one input warehouse
SegRecords == 2        \* Modifier: records in one input segment
MaxCalls == 3          \* preload(): calls made on one object
MaxPages == 2          \* _process_executor: pages in the XML file
MaxPageRevs == 2       \* _process_executor: revisions of one page
MaxReaderFiles == 3    \* Reader: preloaded files

(* -------------------------- program constants ------------------------- *)
ModifierMaxSize == 8   \* Warehouse(max_size=8) in Modifier.start

VARIABLES
    mode,                  \* "warehouse" | "build" | "modify": which program runs
    (* allocator state: Warehouse.__init__ *)
    available_warehouses,  \* list of base names
    occupied_warehouses,   \* list of base names
    warehouse_indexer,     \* next index
    max_size,
    compress,
    (* the output directory *)
    payload,               \* <base>.jsonl      : name -> bytes (domain = existing files)
    metadata,              \* <base>.metadata   : name -> lines
    zst,                   \* <base>.jsonl.zst  : name -> bytes
    ino,                   \* name -> number of times <base>.jsonl was unlinked
    (* SpecWarehouse: the callers *)
    clients,               \* client -> its position and locals
    (* Builder.build / Modifier.start *)
    num_proc,
    files,                 \* self.files: the preloaded inputs
    modifiers,             \* self.modifiers: the chain of profiles
    old_format,            \* Modifier: how the preloaded warehouses were written
    tasks,                 \* the list `tasks`
    available_process_count,
    main,                  \* the thread running build()/start(): [pc, tmp, phase]
    poolq,                 \* Pool: tasks handed to apply_async, not yet started
    workers,               \* Pool: worker process -> the task it runs and its locals
    results,               \* Pool: finished tasks whose callback has not run yet
    cb,                    \* Pool's result-handler thread, which runs the callbacks
    temp,                  \* <output_dir>/temp
    (* history, for the properties only *)
    sealed,                \* names removed from available by release/finalize
    created,               \* sequence of names in creation order
    dropped,               \* Modifier: ids of the segments a profile returned (_, None) for;
                           \* Reader: the files whose task raised
    calls,                 \* Modifier: the block() invocations made so far
    (* the operations modelled on their own *)
    pre,                   \* preload(): the directory tree, the last call and its outcome
    px,                    \* _process_executor: the XML items and the executor's locals
    gl,                    \* Reader.glimpse: its place, the file picked, the paths on disk
    ex,                    \* decompress and process tasks on <output_dir>/temp: places, directories
    lp                     \* get_line_positions / read_line_in_file: the file, the positions, the line read

allocVars == <<available_warehouses, occupied_warehouses, warehouse_indexer>>
fileVars == <<payload, metadata, zst, ino>>
histVars == <<sealed, created, dropped, calls>>
unitVars == <<pre, px, gl, ex, lp>>
inputVars == <<mode, max_size, compress, num_proc, files, modifiers, old_format>>
pipeVars == <<tasks, available_process_count, main, poolq, workers, results, cb, temp>>
vars == <<mode, available_warehouses, occupied_warehouses, warehouse_indexer,
          max_size, compress, payload, metadata, zst, ino, clients,
          num_proc, files, modifiers, old_format, tasks, available_process_count,
          main, poolq, workers, results, cb, temp, sealed, created, dropped, calls,
          pre, px, gl, ex, lp>>

(* ------------------------------ helpers ------------------------------- *)
\* the value of `pre`, `px` and `gl` in the runs that do not call the operation
NoPreload == [exists |-> {}, path |-> 0, raised |-> "none", calls |-> 0]
NoProcess == [pc |-> "none"]
NoGlimpse == [pc |-> "none"]
NoExtract == [pc |-> <<>>]
NoLines == [pc |-> "none"]

Range(s) == {s[i] : i \in 1..Len(s)}

RECURSIVE RemoveFirst(_, _)
\* list.remove(x): removes the first occurrence (the caller checks membership)
RemoveFirst(s, x) ==
    IF s = <<>> THEN <<>>
    ELSE IF Head(s) = x THEN Tail(s)
    ELSE <<Head(s)>> \o RemoveFirst(Tail(s), x)

SetMin(S) == CHOOSE x \in S : \A y \in S : x <= y

NL == [k |-> "nl"]
RecByte(a, r) == [k |-> "rec", article_id |-> a, revision_id |-> r]

\* get_file_size(path): 0 when the file does not exist
get_file_size(fs, w) == IF w \in DOMAIN fs THEN Len(fs[w]) ELSE 0

\* open(path, 'w') + truncate(0): creates or empties the file
Truncated(fs, w) == [x \in DOMAIN fs \cup {w} |-> IF x = w THEN <<>> ELSE fs[x]]

\* os.remove(path)
Removed(fs, w) == [x \in DOMAIN fs \ {w} |-> fs[x]]

\* the free list both assign_warehouse and bulk_assign compute
FreeWarehouses(avail, occ) == SelectSeq(avail, LAMBDA w : w \notin Range(occ))


(* ===================================================================== *)
(* The warehouse allocator                      src/twb/warehouse.py     *)
(* ===================================================================== *)

\* The allocator state an operation works on, as one record.
AllocState == [avail |-> available_warehouses, occ |-> occupied_warehouses,
               idx |-> warehouse_indexer, pay |-> payload, meta |-> metadata,
               made |-> created]

\* create_warehouse(): name the warehouse after the counter, truncate both
\* files, append the name to available, then increment the counter.
create_warehouse(st) ==
    [st EXCEPT !.avail = Append(@, st.idx),
               !.pay = Truncated(@, st.idx),
               !.meta = Truncated(@, st.idx),
               !.made = Append(@, st.idx),
               !.idx = @ + 1]

\* assign_warehouse with max(free_warehouses) in place of min
assign_warehouse_max(st) ==
    LET free0 == FreeWarehouses(st.avail, st.occ)
        st1 == IF Len(free0) = 0 THEN create_warehouse(st) ELSE st
        free == FreeWarehouses(st1.avail, st1.occ)
        SetMax(S) == CHOOSE x \in S : \A y \in S : y <= x
    IN IF Len(free) = 0
       THEN [st |-> st1, w |-> -1, raised |-> TRUE]
       ELSE [st |-> [st1 EXCEPT !.occ = Append(@, SetMax(Range(free)))],
             w |-> SetMax(Range(free)), raised |-> FALSE]

\* assign_warehouse that creates a warehouse whether or not one is free
assign_warehouse_fresh(st) ==
    LET st1 == create_warehouse(st)
        free == FreeWarehouses(st1.avail, st1.occ)
    IN IF Len(free) = 0
       THEN [st |-> st1, w |-> -1, raised |-> TRUE]
       ELSE [st |-> [st1 EXCEPT !.occ = Append(@, SetMin(Range(free)))],
             w |-> SetMin(Range(free)), raised |-> FALSE]

\* assign_warehouse whose free list is all of available_warehouses
assign_warehouse_any(st) ==
    LET st1 == IF Len(st.avail) = 0 THEN create_warehouse(st) ELSE st
    IN IF Len(st1.avail) = 0
       THEN [st |-> st1, w |-> -1, raised |-> TRUE]
       ELSE [st |-> [st1 EXCEPT !.occ = Append(@, SetMin(Range(st1.avail)))],
             w |-> SetMin(Range(st1.avail)), raised |-> FALSE]

\* assign_warehouse(), the whole critical section: [st |-> new state, w |-> name].
\* min() of an empty list raises ValueError (the created name may already be
\* occupied); the lock is released and the caller sees the exception: raised.
assign_warehouse(st) ==
    LET free0 == FreeWarehouses(st.avail, st.occ)
        st1 == IF Len(free0) = 0 THEN create_warehouse(st) ELSE st
        free == FreeWarehouses(st1.avail, st1.occ)
    IN IF Len(free) = 0
       THEN [st |-> st1, w |-> -1, raised |-> TRUE]
       ELSE [st |-> [st1 EXCEPT !.occ = Append(@, SetMin(Range(free)))],
             w |-> SetMin(Range(free)), raised |-> FALSE]

\* release_warehouse whose `occupied_warehouses.remove` does not raise on a
\* name that is not there
release_warehouse_quiet(occ, avail, fs, w, maxsz, comp) ==
    LET occ1 == RemoveFirst(occ, w)
    IN IF get_file_size(fs, w) >= maxsz /\ w \in Range(avail)
       THEN [occ |-> occ1, avail |-> RemoveFirst(avail, w),
             path |-> IF comp THEN w ELSE -1, didSeal |-> TRUE]
       ELSE [occ |-> occ1, avail |-> avail, path |-> -1, didSeal |-> FALSE]

\* release_warehouse with `warehouse_file_size > self.max_size`
release_warehouse_gt(occ, avail, fs, w, maxsz, comp) ==
    IF w \notin Range(occ) THEN [occ |-> occ, avail |-> avail, path |-> -1, didSeal |-> FALSE]
    ELSE LET occ1 == RemoveFirst(occ, w)
         IN IF get_file_size(fs, w) > maxsz
            THEN IF w \in Range(avail)
                 THEN [occ |-> occ1, avail |-> RemoveFirst(avail, w),
                       path |-> IF comp THEN w ELSE -1, didSeal |-> TRUE]
                 ELSE [occ |-> occ1, avail |-> avail, path |-> -1, didSeal |-> FALSE]
            ELSE [occ |-> occ1, avail |-> avail, path |-> -1, didSeal |-> FALSE]

\* release_warehouse(w), the whole critical section.  occupied.remove raises
\* when w is not occupied and available.remove raises when w is not
\* available; the bare except swallows both, keeping what was done before.
\* Result: [occ, avail, path] with path = the payload to compress or -1 (None).
release_warehouse(occ, avail, fs, w, maxsz, comp) ==
    IF w \notin Range(occ) THEN [occ |-> occ, avail |-> avail, path |-> -1, didSeal |-> FALSE]
    ELSE LET occ1 == RemoveFirst(occ, w)
         IN IF get_file_size(fs, w) >= maxsz
            THEN IF w \in Range(avail)
                 THEN [occ |-> occ1, avail |-> RemoveFirst(avail, w),
                       path |-> IF comp THEN w ELSE -1, didSeal |-> TRUE]
                 ELSE [occ |-> occ1, avail |-> avail, path |-> -1, didSeal |-> FALSE]
            ELSE [occ |-> occ1, avail |-> avail, path |-> -1, didSeal |-> FALSE]

(* ---- bulk_assign, piece by piece ---- *)

\* _sync_warehouses(): warehouses seen for the first time get max_size
sync_remaining(free, rem, maxsz) ==
    [w \in DOMAIN rem \cup Range(free) |-> IF w \in DOMAIN rem THEN rem[w] ELSE maxsz]

\* _sync_warehouses(): the free warehouses with remaining size > 0 ...
acceptable_warehouses(free, rem) == SelectSeq(free, LAMBDA w : rem[w] > 0)

\* ... sorted by remaining size, largest first; sorted() is stable, so
\* element [0] is the first of the free list among the largest.
first_acceptable(acc, rem) ==
    LET best == CHOOSE m \in {rem[acc[i]] : i \in 1..Len(acc)} :
                    \A i \in 1..Len(acc) : rem[acc[i]] <= m
        pos == SetMin({i \in 1..Len(acc) : rem[acc[i]] = best})
    IN acc[pos]

\* remaining_sizes at the top of bulk_assign
initial_remaining(free, fs, maxsz) ==
    [w \in Range(free) |-> maxsz - get_file_size(fs, w)]

\* warehouse_assignments[w].append(file): a list of <<w, files>> in key order
add_assignment(asg, w, file) ==
    IF \E i \in 1..Len(asg) : asg[i][1] = w
    THEN [i \in 1..Len(asg) |-> IF asg[i][1] = w
                                THEN <<w, Append(asg[i][2], file)>> ELSE asg[i]]
    ELSE Append(asg, <<w, <<file>> >>)

AssignedNames(asg) == [i \in 1..Len(asg) |-> asg[i][1]]

RECURSIVE bulk_loop(_, _, _, _, _, _)
\* the `for file in files` loop run without interruption (as on the single
\* callback thread of Builder.build): flist is a list of [f |-> file, size |-> n]
bulk_loop(st, flist, rem, asg, maxsz, fuel) ==
    IF flist = <<>> THEN [st |-> st, asg |-> asg]
    ELSE LET free == FreeWarehouses(st.avail, st.occ)
             rem1 == sync_remaining(free, rem, maxsz)
             acc == acceptable_warehouses(free, rem1)
         IN IF Len(acc) = 0
            THEN IF fuel = 0 THEN [st |-> st, asg |-> asg]
                 ELSE bulk_loop(create_warehouse(st), flist, rem1, asg, maxsz, fuel - 1)
            ELSE LET w == first_acceptable(acc, rem1)
                 IN bulk_loop(st, Tail(flist),
                              [rem1 EXCEPT ![w] = @ - Head(flist).size],
                              add_assignment(asg, w, Head(flist).f), maxsz, 1)

\* bulk_assign(files) as one uninterrupted call
bulk_assign(st, flist, maxsz) ==
    LET free == FreeWarehouses(st.avail, st.occ)
        r == bulk_loop(st, flist, initial_remaining(free, st.pay, maxsz), <<>>, maxsz, 1)
    IN [st |-> [r.st EXCEPT !.occ = @ \o AssignedNames(r.asg)], asg |-> r.asg]


(* ===================================================================== *)
(* SpecWarehouse: concurrent callers of one allocator                    *)
(*                                                                       *)
(* assign_warehouse, release_warehouse and finalize_warehouse run under  *)
(* mp_lock, so each is one step.  bulk_assign takes no lock              *)
(* (warehouse.py:83-123): every access it makes to the shared lists and  *)
(* to the counter is a step of its own, and so are the accesses of the   *)
(* create_warehouse() it calls.                                          *)
(* ===================================================================== *)
Clients == 1..MaxClients

IdleClient == [pc |-> "idle", held |-> {}, files |-> <<>>, rem |-> <<>>,
               asg |-> <<>>, idx |-> 0, again |-> <<>>]

\* the files a caller may hand to bulk_assign: 1..MaxBulkFiles files of size 1 or 2
BulkInputs ==
    UNION {[1..n -> {[f |-> 1, size |-> 1], [f |-> 2, size |-> 2]}] : n \in 1..MaxBulkFiles}

InitWarehouse ==
    /\ mode = "warehouse"
    /\ available_warehouses = <<>>
    /\ occupied_warehouses = <<>>
    /\ warehouse_indexer = 0
    /\ max_size = 2
    /\ compress \in BOOLEAN
    /\ payload = <<>>
    /\ metadata = <<>>
    /\ zst = <<>>
    /\ ino = <<>>
    /\ clients = [c \in Clients |-> IdleClient]
    /\ sealed = {}
    /\ created = <<>>
    /\ dropped = {}
    /\ calls = {}
    /\ pre = NoPreload
    /\ px = NoProcess
    /\ gl = NoGlimpse
    /\ ex = NoExtract
    /\ lp = NoLines
    /\ num_proc = 0
    /\ files = <<>>
    /\ modifiers = <<>>
    /\ old_format = "none"
    /\ tasks = <<>>
    /\ available_process_count = 0
    /\ main = [pc |-> "none", tmp |-> 0, phase |-> 0]
    /\ poolq = <<>>
    /\ workers = <<>>
    /\ results = <<>>
    /\ cb = [pc |-> "none", ins |-> <<>>, tmp |-> 0]
    /\ temp = [exists |-> FALSE, xml |-> {}, proc |-> {}, dec |-> {}]

\* a worker calls assign_warehouse()
WAssign(c) ==
    /\ mode = "warehouse"
    /\ clients[c].pc = "idle"
    /\ \/ Len(FreeWarehouses(available_warehouses, occupied_warehouses)) > 0
       \/ Len(created) < MaxCreated
    /\ LET r == assign_warehouse(AllocState)
       IN /\ available_warehouses' = r.st.avail
          /\ occupied_warehouses' = r.st.occ
          /\ warehouse_indexer' = r.st.idx
          /\ payload' = r.st.pay
          /\ metadata' = r.st.meta
          /\ created' = r.st.made
          /\ clients' = IF r.raised THEN clients
                         ELSE [clients EXCEPT ![c].held = @ \cup {r.w}]
    /\ UNCHANGED <<pipeVars, unitVars, num_proc, files, modifiers, old_format, dropped, calls, mode, max_size, compress, zst, ino, sealed>>

\* the holder of w appends n bytes to its payload
WWrite(c, w, n) ==
    /\ mode = "warehouse"
    /\ clients[c].pc = "idle"
    /\ w \in clients[c].held
    /\ w \in DOMAIN payload
    /\ Len(payload[w]) < max_size
    /\ payload' = [payload EXCEPT ![w] = @ \o [i \in 1..n |-> NL]]
    /\ UNCHANGED <<pipeVars, unitVars, num_proc, files, modifiers, old_format, dropped, calls, mode, allocVars, max_size, compress, metadata, zst, ino,
                   clients, sealed, created>>

\* the holder of w calls release_warehouse(w)
WRelease(c, w) ==
    /\ mode = "warehouse"
    /\ clients[c].pc = "idle"
    /\ w \in clients[c].held
    /\ LET r == release_warehouse(occupied_warehouses, available_warehouses,
                                  payload, w, max_size, compress)
       IN /\ occupied_warehouses' = r.occ
          /\ available_warehouses' = r.avail
          /\ sealed' = IF r.didSeal THEN sealed \cup {w} ELSE sealed
    /\ clients' = [clients EXCEPT ![c].held = @ \ {w}]
    /\ UNCHANGED <<pipeVars, unitVars, num_proc, files, modifiers, old_format, dropped, calls, mode, warehouse_indexer, max_size, compress, fileVars,
                   created>>

\* finalize_warehouse(w) on a warehouse nobody holds
WFinalize(c, w) ==
    /\ mode = "warehouse"
    /\ clients[c].pc = "idle"
    /\ w \in Range(available_warehouses)
    /\ w \notin Range(occupied_warehouses)
    /\ available_warehouses' = RemoveFirst(available_warehouses, w)
    /\ sealed' = sealed \cup {w}
    /\ UNCHANGED <<pipeVars, unitVars, num_proc, files, modifiers, old_format, dropped, calls, mode, occupied_warehouses, warehouse_indexer, max_size,
                   compress, fileVars, clients, created>>

\* bulk_assign(files), lines 87-93: the free list and remaining_sizes
WBulkBegin(c, flist) ==
    /\ mode = "warehouse"
    /\ clients[c].pc = "idle"
    /\ clients[c].held = {}
    /\ LET free == FreeWarehouses(available_warehouses, occupied_warehouses)
       IN clients' = [clients EXCEPT ![c] =
              [@ EXCEPT !.pc = "sync", !.files = flist, !.asg = <<>>,
                        !.rem = initial_remaining(free, payload, max_size)]]
    /\ UNCHANGED <<pipeVars, unitVars, num_proc, files, modifiers, old_format, dropped, calls, mode, allocVars, max_size, compress, fileVars, sealed, created>>

\* lines 107-117: _sync_warehouses(), then either create or pick [0]
WBulkSync(c) ==
    /\ mode = "warehouse"
    /\ clients[c].pc = "sync"
    /\ LET me == clients[c]
           free == FreeWarehouses(available_warehouses, occupied_warehouses)
           rem1 == sync_remaining(free, me.rem, max_size)
           acc == acceptable_warehouses(free, rem1)
       IN IF Len(acc) = 0
          THEN clients' = [clients EXCEPT ![c] = [@ EXCEPT !.pc = "create", !.rem = rem1]]
          ELSE LET w == first_acceptable(acc, rem1)
                   rest == Tail(me.files)
               IN clients' = [clients EXCEPT ![c] =
                      [@ EXCEPT !.pc = IF rest = <<>> THEN "mark" ELSE "sync",
                                !.files = rest,
                                !.rem = [rem1 EXCEPT ![w] = @ - Head(me.files).size],
                                !.asg = add_assignment(me.asg, w, Head(me.files).f)]]
    /\ UNCHANGED <<pipeVars, unitVars, num_proc, files, modifiers, old_format, dropped, calls, mode, allocVars, max_size, compress, fileVars, sealed, created>>

\* create_warehouse() line 47: read the counter
WBulkCreateRead(c) ==
    /\ mode = "warehouse"
    /\ clients[c].pc = "create"
    /\ Len(created) < MaxCreated
    /\ clients' = [clients EXCEPT ![c] = [@ EXCEPT !.pc = "files", !.idx = warehouse_indexer]]
    /\ UNCHANGED <<pipeVars, unitVars, num_proc, files, modifiers, old_format, dropped, calls, mode, allocVars, max_size, compress, fileVars, sealed, created>>

\* create_warehouse() lines 51-58: truncate the two files, append the name
WBulkCreateFiles(c) ==
    /\ mode = "warehouse"
    /\ clients[c].pc = "files"
    /\ payload' = Truncated(payload, clients[c].idx)
    /\ metadata' = Truncated(metadata, clients[c].idx)
    /\ available_warehouses' = Append(available_warehouses, clients[c].idx)
    /\ created' = Append(created, clients[c].idx)
    /\ clients' = [clients EXCEPT ![c].pc = "incr"]
    /\ UNCHANGED <<pipeVars, unitVars, num_proc, files, modifiers, old_format, dropped, calls, mode, occupied_warehouses, warehouse_indexer, max_size,
                   compress, zst, ino, sealed>>

\* create_warehouse() line 64, `value += 1`: the read ...
WBulkIncrRead(c) ==
    /\ mode = "warehouse"
    /\ clients[c].pc = "incr"
    /\ clients' = [clients EXCEPT ![c] = [@ EXCEPT !.pc = "incw", !.idx = warehouse_indexer]]
    /\ UNCHANGED <<pipeVars, unitVars, num_proc, files, modifiers, old_format, dropped, calls, mode, allocVars, max_size, compress, fileVars, sealed, created>>

\* ... and the write; then back to _sync_warehouses() (line 110)
WBulkIncrWrite(c) ==
    /\ mode = "warehouse"
    /\ clients[c].pc = "incw"
    /\ warehouse_indexer' = clients[c].idx + 1
    /\ clients' = [clients EXCEPT ![c].pc = "sync"]
    /\ UNCHANGED <<pipeVars, unitVars, num_proc, files, modifiers, old_format, dropped, calls, mode, available_warehouses, occupied_warehouses, max_size,
                   compress, fileVars, sealed, created>>

\* lines 119-123: mark the picked warehouses occupied and return them
WBulkMark(c) ==
    /\ mode = "warehouse"
    /\ clients[c].pc = "mark"
    /\ LET names == AssignedNames(clients[c].asg)
       IN /\ occupied_warehouses' = occupied_warehouses \o names
          /\ clients' = [clients EXCEPT ![c] =
                 [IdleClient EXCEPT !.held = Range(names)]]
    /\ UNCHANGED <<pipeVars, unitVars, num_proc, files, modifiers, old_format, dropped, calls, mode, available_warehouses, warehouse_indexer, max_size,
                   compress, fileVars, sealed, created>>

NextWarehouse ==
    \E c \in Clients :
        \/ WAssign(c)
        \/ \E w \in clients[c].held : \E n \in 1..MaxWrite : WWrite(c, w, n)
        \/ \E w \in clients[c].held : WRelease(c, w)
        \/ \E w \in Range(available_warehouses) : WFinalize(c, w)
        \/ \E flist \in BulkInputs : WBulkBegin(c, flist)
        \/ WBulkSync(c)
        \/ WBulkCreateRead(c)
        \/ WBulkCreateFiles(c)
        \/ WBulkIncrRead(c)
        \/ WBulkIncrWrite(c)
        \/ WBulkMark(c)

SpecWarehouse == InitWarehouse /\ [][NextWarehouse]_vars

(* ---- SpecRelease: the locked operations, and releases out of turn ---- *)

\* a caller calls release_warehouse(w) for a name it does not hold: a
\* warehouse it has released before, one another caller holds, or a name
\* no warehouse has.  `again` keeps the name and what the call returned.
WReleaseAgain(c, w) ==
    /\ mode = "warehouse"
    /\ clients[c].pc = "idle"
    /\ w \notin clients[c].held
    /\ Len(clients[c].again) < MaxAgain
    /\ LET r == release_warehouse(occupied_warehouses, available_warehouses,
                                  payload, w, max_size, compress)
       IN /\ occupied_warehouses' = r.occ
          /\ available_warehouses' = r.avail
          /\ sealed' = IF r.didSeal THEN sealed \cup {w} ELSE sealed
          /\ clients' = [clients EXCEPT ![c].again = Append(@, <<w, r.path>>)]
    /\ UNCHANGED <<pipeVars, unitVars, num_proc, files, modifiers, old_format, dropped, calls, mode, warehouse_indexer, max_size, compress, fileVars,
                   created>>

NextRelease ==
    \E c \in Clients :
        \/ WAssign(c)
        \/ \E w \in clients[c].held : \E n \in 1..MaxWrite : WWrite(c, w, n)
        \/ \E w \in clients[c].held : WRelease(c, w)
        \/ \E w \in Range(available_warehouses) : WFinalize(c, w)
        \/ \E w \in 0..MaxCreated : WReleaseAgain(c, w)

SpecRelease == InitWarehouse /\ [][NextRelease]_vars


(* ---- SpecCalls: allocator calls made one after another ---- *)

\* one step of a call by caller c while no other caller is inside
\* bulk_assign: the calls of a run in which they do not overlap
NextCalls ==
    \E c \in Clients :
        /\ \A d \in Clients \ {c} : clients[d].pc = "idle"
        /\ \/ WAssign(c)
           \/ \E w \in clients[c].held : \E n \in 1..MaxWrite : WWrite(c, w, n)
           \/ \E w \in clients[c].held : WRelease(c, w)
           \/ \E w \in 0..MaxCreated : WReleaseAgain(c, w)
           \/ \E flist \in BulkInputs : WBulkBegin(c, flist)
           \/ WBulkSync(c)
           \/ WBulkCreateRead(c)
           \/ WBulkCreateFiles(c)
           \/ WBulkIncrRead(c)
           \/ WBulkIncrWrite(c)
           \/ WBulkMark(c)

SpecCalls == InitWarehouse /\ [][NextCalls]_vars

\* C1 (as claimed): at every moment each warehouse is held by at most one
\* writer, whatever the interleaving of assign / bulk_assign / release.
C1_OneWriterPerWarehouse ==
    mode = "warehouse" =>
        \A c1, c2 \in Clients : c1 # c2 => clients[c1].held \cap clients[c2].held = {}


(* ===================================================================== *)
(* Spec: one run of Builder.build() or of Modifier.start()               *)
(*                                                                       *)
(* Three kinds of process take steps:                                    *)
(*   - the main thread: the two `while tasks or available_process_count  *)
(*     < num_proc` loops and what follows them;                          *)
(*   - the pool's workers, which run the executors;                      *)
(*   - the pool's result-handler thread, which runs the callbacks, one   *)
(*     result at a time.                                                 *)
(* `tasks` and `available_process_count` are shared by the main thread   *)
(* and the callbacks without a lock: every read and every write of them  *)
(* is a step, and `x += 1` / `x -= 1` is a read followed by a write.     *)
(* ===================================================================== *)

(* ------------------------------ inputs -------------------------------- *)
\* Builder: an archive is corrupt (py7zr raises) or holds one XML file; an
\* XML file is a list of articles given by their number of revisions.
XmlShapes == UNION {[1..n -> 0..MaxRevs] : n \in 1..MaxArticles}
Archives == {[bad |-> TRUE, xml |-> <<>>]} \cup {[bad |-> FALSE, xml |-> x] : x \in XmlShapes}
BuilderInputs == UNION {[1..n -> Archives] : n \in 1..MaxArchives}

\* the article ids of archive i: its k-th article has id 10*i + k
ArticleId(i, k) == 10 * i + k
ArticleRevs(fl, a) == fl[a \div 10].xml[a % 10]

\* Modifier: an input warehouse is a list of segments of SegRecords records
\* each; the k-th segment of input i is the article 10*i + k.
InputWarehouses == UNION {[1..n -> {SegRecords}] : n \in 1..MaxSegments}
ModifierInputs == UNION {[1..n -> InputWarehouses] : n \in 1..MaxInputs}

\* the profiles a run may register (src/tests/test_modifier_core.py:8-21 is "keep")
ProfileKinds == {"keep", "drop_rec", "drop_all", "drop_seg", "raise_rec", "set_meta"}
Chains == {<<p>> : p \in ProfileKinds \ {"set_meta"}}
              \cup {<<"set_meta", "keep">>, <<"raise_rec", "keep">>}

\* how a preloaded warehouse was written: one record per line ("jsonl"), by
\* Builder._warehouse_executor of this repository ("builder"), or one record
\* per line with a metadata file whose first line is no JSON ("torn")
OldFormats == {"jsonl", "builder", "torn"}

(* ------------------------- tasks and workers --------------------------- *)
Task(type, file, w, combo) == [type |-> type, file |-> file, w |-> w, combo |-> combo]
NoTask == Task("none", 0, -1, <<>>)

\* what a finished task hands to its callback: ok = FALSE when the executor raised
Result(type, ok, file, w, list) ==
    [type |-> type, ok |-> ok, file |-> file, w |-> w, list |-> list]

IdleWorker == [pc |-> "idle", t |-> NoTask, segs |-> <<>>, cur |-> 0, wh |-> -1,
               pos |-> 0, hino |-> 0, full |-> <<>>]

IdleCallback == [pc |-> "idle", ins |-> <<>>, tmp |-> 0]

\* build() / start() up to the main loop: an empty output directory, a fresh
\* allocator, an idle pool of num_proc workers
InitRun ==
    /\ available_warehouses = <<>>
    /\ occupied_warehouses = <<>>
    /\ warehouse_indexer = 0
    /\ payload = <<>>
    /\ metadata = <<>>
    /\ zst = <<>>
    /\ ino = <<>>
    /\ clients = <<>>
    /\ available_process_count = num_proc
    /\ main = [pc |-> "loop", tmp |-> 0, phase |-> 1]
    /\ poolq = <<>>
    /\ workers = [k \in 1..num_proc |-> IdleWorker]
    /\ results = <<>>
    /\ cb = IdleCallback
    /\ temp = [exists |-> TRUE, xml |-> {}, proc |-> {}, dec |-> {}]
    /\ sealed = {}
    /\ created = <<>>
    /\ dropped = {}
    /\ calls = {}

InitPipeline ==
    /\ mode \in {"build", "modify"}
    /\ num_proc \in 1..MaxProc
    /\ IF mode = "build"
       THEN /\ files \in BuilderInputs
            /\ modifiers = <<>>
            /\ old_format = "none"
            /\ max_size = BuilderMaxSize
            /\ compress \in BOOLEAN
            /\ tasks = [i \in 1..Len(files) |-> Task("decompress", i, -1, <<>>)]
       ELSE /\ files \in ModifierInputs
            /\ modifiers \in Chains
            /\ old_format \in OldFormats
            /\ max_size = ModifierMaxSize
            /\ compress = TRUE
            /\ tasks = [i \in 1..Len(files) |-> Task("modify", i, -1, <<>>)]
    /\ InitRun
    /\ pre = NoPreload
    /\ px = NoProcess
    /\ gl = NoGlimpse
    /\ ex = NoExtract
    /\ lp = NoLines

\* Builder.build() alone, with compress=True and a max_size no larger than
\* the processed file of a one-revision article: every article fills a
\* warehouse
InitBuilder ==
    /\ mode = "build"
    /\ num_proc \in 1..MaxProc
    /\ files \in BuilderInputs
    /\ modifiers = <<>>
    /\ old_format = "none"
    /\ max_size = SplitMaxSize
    /\ compress = TRUE
    /\ tasks = [i \in 1..Len(files) |-> Task("decompress", i, -1, <<>>)]
    /\ InitRun
    /\ pre = NoPreload
    /\ px = NoProcess
    /\ gl = NoGlimpse
    /\ ex = NoExtract
    /\ lp = NoLines

(* --------------------------- the main thread --------------------------- *)
workVars == <<poolq, workers, results, cb, temp>>

\* `while tasks or ...` (builder.py:393/445, modifier.py:410/442): the test of
\* `tasks`.  Only this thread removes tasks, so when the list is not empty
\* it is still not empty at `if tasks and available_process_count > 0`; that
\* test and the read of `available_process_count -= 1` are taken here.
\* With no free slot the thread sleeps and tests again.
MainTestTasks ==
    /\ main.pc = "loop"
    /\ main' = IF tasks = <<>> THEN [main EXCEPT !.pc = "cond2"]
               ELSE IF available_process_count > 0
               THEN [main EXCEPT !.pc = "dec", !.tmp = available_process_count]
               ELSE main
    /\ UNCHANGED <<inputVars, unitVars, allocVars, fileVars, clients, tasks,
                   available_process_count, workVars, histVars>>

\* `... or available_process_count < self.num_proc`, read after `tasks` was
\* found empty: the loop goes on (and sleeps), or is left
MainTestCount ==
    /\ main.pc = "cond2"
    /\ main' = [main EXCEPT !.pc =
           IF available_process_count < num_proc THEN "loop"
           ELSE IF main.phase = 1 THEN "enqueue" ELSE "after"]
    /\ UNCHANGED <<inputVars, unitVars, allocVars, fileVars, clients, tasks,
                   available_process_count, workVars, histVars>>

\* the write of `available_process_count -= 1`, tasks.pop(0) and apply_async;
\* in the final loop a task that is no cleanup is logged and `+= 1` follows
MainDispatch ==
    /\ main.pc = "dec"
    /\ available_process_count' = main.tmp - 1
    /\ tasks' = Tail(tasks)
    /\ IF main.phase = 2 /\ Head(tasks).type # "cleanup"
       THEN /\ main' = [main EXCEPT !.pc = "unk"]
            /\ poolq' = poolq
       ELSE /\ main' = [main EXCEPT !.pc = "loop"]
            /\ poolq' = Append(poolq, Head(tasks))
    /\ UNCHANGED <<inputVars, unitVars, allocVars, fileVars, clients, workers, results,
                   cb, temp, histVars>>

\* builder.py:459 / modifier.py:456, `available_process_count += 1`: the read ...
MainUnknownRead ==
    /\ main.pc = "unk"
    /\ main' = [main EXCEPT !.pc = "unkw", !.tmp = available_process_count]
    /\ UNCHANGED <<inputVars, unitVars, allocVars, fileVars, clients, tasks,
                   available_process_count, workVars, histVars>>

\* ... and the write
MainUnknownWrite ==
    /\ main.pc = "unkw"
    /\ main.tmp + 1 <= num_proc + MaxExcess
    /\ available_process_count' = main.tmp + 1
    /\ main' = [main EXCEPT !.pc = "loop"]
    /\ UNCHANGED <<inputVars, unitVars, allocVars, fileVars, clients, tasks, workVars, histVars>>

\* between the loops (builder.py:437-442, modifier.py:435-439): a cleanup
\* task for every warehouse still in available_warehouses
MainEnqueueFinal ==
    /\ main.pc = "enqueue"
    /\ tasks' = IF mode = "modify" \/ compress
                THEN tasks \o [i \in 1..Len(available_warehouses) |->
                                   Task("cleanup", 0, available_warehouses[i], <<>>)]
                ELSE tasks
    /\ main' = [main EXCEPT !.pc = "loop", !.phase = 2]
    /\ UNCHANGED <<inputVars, unitVars, allocVars, fileVars, clients,
                   available_process_count, workVars, histVars>>

PoolDrained ==
    /\ poolq = <<>>
    /\ \A k \in DOMAIN workers : workers[k].pc = "idle"
    /\ results = <<>>
    /\ cb.pc = "idle"

\* after the final loop: Modifier.start closes and joins the pool
\* (modifier.py:462-463), Builder.build does not; then cleanup_dir(temp)
MainFinish ==
    /\ main.pc = "after"
    /\ mode = "modify" => PoolDrained
    /\ temp' = [exists |-> FALSE, xml |-> {}, proc |-> {}, dec |-> {}]
    /\ main' = [main EXCEPT !.pc = "done"]
    /\ UNCHANGED <<inputVars, unitVars, allocVars, fileVars, clients, tasks,
                   available_process_count, poolq, workers, results, cb, histVars>>

MainStep ==
    \/ MainTestTasks
    \/ MainTestCount
    \/ MainDispatch
    \/ MainUnknownRead
    \/ MainUnknownWrite
    \/ MainEnqueueFinal
    \/ MainFinish

\* The model follows the run until build() / start() returns.
Running == main.pc # "done"

(* ---------------- the callbacks (result-handler thread) ---------------- *)
InoOf(w) == IF w \in DOMAIN ino THEN ino[w] ELSE 0

\* the processed file of article a: one line per revision
ProcessedFile(fl, a) ==
    [n \in 1..(2 * ArticleRevs(fl, a)) |-> IF n % 2 = 1 THEN RecByte(a, (n + 1) \div 2) ELSE NL]

\* get_file_size(file) as bulk_assign sees a processed file (0 when missing)
ProcessedSize(fl, tp, a) == IF a \in tp.proc THEN Len(ProcessedFile(fl, a)) ELSE 0

\* the follow-up tasks of a result, in the order the callback inserts them
\* at index 0 of `tasks`, with the allocator state the callback leaves
\*   builder.py:321-374 and modifier.py:360-380
CallbackEffect(r) ==
    IF r.type = "decompress"
    THEN [st |-> AllocState, seal |-> {},
          ins |-> [n \in 1..Len(r.list) |-> Task("process", r.list[n], -1, <<>>)]]
    ELSE IF r.type = "process"
    THEN LET b == bulk_assign(AllocState,
                      [n \in 1..Len(r.list) |->
                           [f |-> r.list[n], size |-> ProcessedSize(files, temp, r.list[n])]],
                      max_size)
         IN [st |-> b.st, seal |-> {},
             ins |-> [n \in 1..Len(b.asg) |-> Task("warehouse", 0, b.asg[n][1], b.asg[n][2])]]
    ELSE IF r.type = "warehouse"
    THEN LET rel == release_warehouse(occupied_warehouses, available_warehouses,
                                      payload, r.w, max_size, compress)
         IN [st |-> [AllocState EXCEPT !.occ = rel.occ, !.avail = rel.avail],
             seal |-> IF rel.didSeal THEN {r.w} ELSE {},
             ins |-> IF rel.path # -1 THEN <<Task("cleanup", 0, rel.path, <<>>)>> ELSE <<>>]
    ELSE IF r.type = "modify"
    THEN [st |-> AllocState, seal |-> {},
          ins |-> [n \in 1..Len(r.list) |-> Task("cleanup", 0, r.list[n], <<>>)]]
    ELSE [st |-> AllocState, seal |-> {}, ins |-> <<>>]

\* _error_callback (builder.py:385-386, modifier.py:387-388): the failure is logged
CB_Error ==
    /\ Running
    /\ cb.pc = "idle"
    /\ results # <<>>
    /\ ~Head(results).ok
    /\ results' = Tail(results)
    /\ UNCHANGED <<inputVars, unitVars, allocVars, fileVars, clients, tasks,
                   available_process_count, main, poolq, workers, cb, temp, histVars>>

\* _success_callback, up to and including its first access to what it
\* shares with the main thread: the allocator call of _process_callback and
\* _warehouse_callback; for the other callbacks the first tasks.insert or,
\* with nothing to insert, the read of `available_process_count += 1`
CB_Take ==
    /\ Running
    /\ cb.pc = "idle"
    /\ results # <<>>
    /\ Head(results).ok
    /\ LET r == Head(results)
           e == CallbackEffect(r)
       IN /\ available_warehouses' = e.st.avail
          /\ occupied_warehouses' = e.st.occ
          /\ warehouse_indexer' = e.st.idx
          /\ payload' = e.st.pay
          /\ metadata' = e.st.meta
          /\ created' = e.st.made
          /\ sealed' = sealed \cup e.seal
          /\ IF r.type \in {"process", "warehouse"}
             THEN /\ cb' = [pc |-> IF e.ins = <<>> THEN "rd" ELSE "ins", ins |-> e.ins, tmp |-> 0]
                  /\ tasks' = tasks
             ELSE IF e.ins # <<>>
             THEN /\ cb' = [pc |-> IF Tail(e.ins) = <<>> THEN "rd" ELSE "ins",
                            ins |-> Tail(e.ins), tmp |-> 0]
                  /\ tasks' = <<Head(e.ins)>> \o tasks
             ELSE /\ cb' = [pc |-> "wr", ins |-> <<>>, tmp |-> available_process_count]
                  /\ tasks' = tasks
    /\ results' = Tail(results)
    /\ UNCHANGED <<inputVars, unitVars, zst, ino, clients, available_process_count,
                   main, poolq, workers, temp, dropped, calls>>

\* tasks.insert(0, (next_task_type, next_args))
CB_Insert ==
    /\ Running
    /\ cb.pc = "ins"
    /\ tasks' = <<Head(cb.ins)>> \o tasks
    /\ cb' = [cb EXCEPT !.ins = Tail(@), !.pc = IF Tail(cb.ins) = <<>> THEN "rd" ELSE "ins"]
    /\ UNCHANGED <<inputVars, unitVars, allocVars, fileVars, clients, available_process_count,
                   main, poolq, workers, results, temp, histVars>>

\* `available_process_count += 1` in a callback: the read ...
CB_IncrRead ==
    /\ Running
    /\ cb.pc = "rd"
    /\ cb' = [cb EXCEPT !.pc = "wr", !.tmp = available_process_count]
    /\ UNCHANGED <<inputVars, unitVars, allocVars, fileVars, clients, tasks, available_process_count,
                   main, poolq, workers, results, temp, histVars>>

\* ... and the write
CB_IncrWrite ==
    /\ Running
    /\ cb.pc = "wr"
    /\ cb.tmp + 1 <= num_proc + MaxExcess
    /\ available_process_count' = cb.tmp + 1
    /\ cb' = IdleCallback
    /\ UNCHANGED <<inputVars, unitVars, allocVars, fileVars, clients, tasks,
                   main, poolq, workers, results, temp, histVars>>

CallbackStep ==
    \/ CB_Error
    \/ CB_Take
    \/ CB_Insert
    \/ CB_IncrRead
    \/ CB_IncrWrite

(* ------------------------------ the pool ------------------------------- *)
\* The pool hands the submitted tasks, oldest first, to its idle workers:
\* the first IdleCount tasks of poolq are with a worker and start in any
\* order.  An executor that is one step of this model (decompress, process)
\* runs from there; the others (pack, cleanup, modify) use a worker record
\* to keep their place between their steps.
IdleCount == Cardinality({k \in DOMAIN workers : workers[k].pc = "idle"})

Started(j) == j \in 1..Len(poolq) /\ j <= IdleCount

RemoveAt(s, j) == [n \in 1..(Len(s) - 1) |-> IF n < j THEN s[n] ELSE s[n + 1]]

\* worker k is the one that runs the next multi-step executor
Takes(k, j, type) ==
    /\ Running
    /\ workers[k].pc = "idle"
    /\ \A i \in DOMAIN workers : i < k => workers[i].pc # "idle"
    /\ Started(j)
    /\ poolq[j].type = type

(* ------------------------ the Builder's executors ---------------------- *)
\* _decompress_executor (builder.py:78-96): the archive's XML file appears
\* in temp/, or py7zr raises
W_Decompress(j) ==
    /\ Running
    /\ Started(j)
    /\ poolq[j].type = "decompress"
    /\ LET i == poolq[j].file
       IN IF files[i].bad
          THEN /\ temp' = [temp EXCEPT !.exists = TRUE]
               /\ results' = Append(results, Result("decompress", FALSE, i, -1, <<>>))
          ELSE /\ temp' = [temp EXCEPT !.exists = TRUE, !.xml = @ \cup {i}]
               /\ results' = Append(results, Result("decompress", TRUE, i, -1, <<i>>))
    /\ poolq' = RemoveAt(poolq, j)
    /\ UNCHANGED <<inputVars, unitVars, allocVars, fileVars, clients, tasks, available_process_count,
                   main, workers, cb, histVars>>

\* _process_executor (builder.py:98-224): one processed file and one
\* metadata file per article, whatever its number of revisions; the XML file
\* is removed.  A missing XML file makes os.remove raise in `finally`.
W_Process(j) ==
    /\ Running
    /\ Started(j)
    /\ poolq[j].type = "process"
    /\ LET i == poolq[j].file
           arts == [n \in 1..Len(files[i].xml) |-> ArticleId(i, n)]
       IN IF i \in temp.xml
          THEN /\ temp' = [temp EXCEPT !.exists = TRUE, !.xml = @ \ {i},
                                       !.proc = @ \cup Range(arts)]
               /\ results' = Append(results, Result("process", TRUE, i, -1, arts))
          ELSE /\ temp' = [temp EXCEPT !.exists = TRUE]
               /\ results' = Append(results, Result("process", FALSE, i, -1, <<>>))
    /\ poolq' = RemoveAt(poolq, j)
    /\ UNCHANGED <<inputVars, unitVars, allocVars, fileVars, clients, tasks, available_process_count,
                   main, workers, cb, histVars>>

\* open(path, 'a'): the file is created when missing; the handle is
\* positioned at the end of the file
OpenedForAppend(fs, w) == IF w \in DOMAIN fs THEN fs ELSE Truncated(fs, w)

\* f.write(...) through a handle opened on the file when it had been
\* unlinked h times: the bytes reach <w>.jsonl only if it is still that file
WrittenThrough(fs, w, h, bytes) ==
    IF w \in DOMAIN fs /\ h = InoOf(w)
    THEN [fs EXCEPT ![w] = @ \o bytes]
    ELSE fs

\* tell() after such a write: the end of the file the handle is on
TellAfter(fs, w, h, pos, bytes) ==
    IF w \in DOMAIN fs /\ h = InoOf(w) THEN Len(fs[w]) + Len(bytes) ELSE pos + Len(bytes)

\* with open(metadata_path, 'a') as f: f.write(json.dumps(m) + '\n')
MetadataAppended(ms, w, m) ==
    [x \in DOMAIN ms \cup {w} |-> IF x = w
                                  THEN (IF w \in DOMAIN ms THEN ms[w] ELSE <<>>) \o <<m>>
                                  ELSE ms[x]]

MetadataLine(a, s, e) == [id |-> a, byte_start |-> s, byte_end |-> e]

RECURSIVE PackedLines(_)
\* builder.py:239-241: every line read (its '\n' included) is written
\* followed by one more '\n'
PackedLines(bytes) ==
    IF bytes = <<>> THEN <<>>
    ELSE IF Head(bytes) = NL THEN <<NL, NL>> \o PackedLines(Tail(bytes))
    ELSE <<Head(bytes)>> \o PackedLines(Tail(bytes))

\* _warehouse_executor, line 232: warehouse_file = open(warehouse_path, 'a')
W_PackOpen(k, j) ==
    /\ Takes(k, j, "warehouse")
    /\ LET w == poolq[j].w
       IN /\ payload' = OpenedForAppend(payload, w)
          /\ workers' = [workers EXCEPT ![k] =
                 [IdleWorker EXCEPT !.pc = "pack", !.t = poolq[j], !.wh = w,
                                    !.hino = InoOf(w), !.pos = get_file_size(payload, w)]]
    /\ poolq' = RemoveAt(poolq, j)
    /\ UNCHANGED <<inputVars, unitVars, allocVars, metadata, zst, ino, clients, tasks,
                   available_process_count, main, results, cb, temp, histVars>>

\* lines 234-253, one turn of the loop: the article's lines go to the
\* warehouse, its metadata line (with the two tell() values) to the metadata
\* file, and its two temporary files are removed.  A missing processed file
\* raises: the except clause logs.  After the last turn, or after the
\* exception, the executor returns assigned_warehouse (lines 255-261).
W_PackArticle(k) ==
    /\ Running
    /\ workers[k].pc = "pack"
    /\ LET me == workers[k]
           w == me.wh
           a == Head(me.t.combo)
           bytes == PackedLines(ProcessedFile(files, a))
           end == TellAfter(payload, w, me.hino, me.pos, bytes)
       IN /\ IF a \in temp.proc
             THEN /\ payload' = WrittenThrough(payload, w, me.hino, bytes)
                  /\ metadata' = MetadataAppended(metadata, w, MetadataLine(a, me.pos, end))
                  /\ temp' = [temp EXCEPT !.proc = @ \ {a}]
             ELSE UNCHANGED <<payload, metadata, temp>>
          /\ IF a \in temp.proc /\ Tail(me.t.combo) # <<>>
             THEN /\ workers' = [workers EXCEPT ![k] =
                         [@ EXCEPT !.pos = end, !.t = [@ EXCEPT !.combo = Tail(@)]]]
                  /\ results' = results
             ELSE /\ workers' = [workers EXCEPT ![k] = IdleWorker]
                  /\ results' = Append(results, Result("warehouse", TRUE, 0, w, <<>>))
    /\ UNCHANGED <<inputVars, unitVars, allocVars, zst, ino, clients, tasks,
                   available_process_count, main, poolq, cb, histVars>>

(* ---------------------- _cleanup_executor (both) ----------------------- *)
\* builder.py:263-271 / modifier.py:297-305: a missing file is logged and
\* None returned; otherwise compress_zstd copies the file into <w>.jsonl.zst
W_Cleanup(k, j) ==
    /\ Takes(k, j, "cleanup")
    /\ LET w == poolq[j].w
       IN IF w \in DOMAIN payload
          THEN /\ zst' = [x \in DOMAIN zst \cup {w} |-> IF x = w THEN payload[w] ELSE zst[x]]
               /\ workers' = [workers EXCEPT ![k] =
                      [IdleWorker EXCEPT !.pc = "remove", !.t = poolq[j]]]
               /\ results' = results
          ELSE /\ zst' = zst
               /\ workers' = workers
               /\ results' = Append(results, Result("cleanup", TRUE, 0, w, <<>>))
    /\ poolq' = RemoveAt(poolq, j)
    /\ UNCHANGED <<inputVars, unitVars, allocVars, payload, metadata, ino, clients, tasks,
                   available_process_count, main, cb, temp, histVars>>

\* builder.py:272-278 / modifier.py:306-312: os.remove(original_file_path);
\* the bare except turns a failure into a None result
W_CleanupRemove(k) ==
    /\ Running
    /\ workers[k].pc = "remove"
    /\ LET w == workers[k].t.w
       IN IF w \in DOMAIN payload
          THEN /\ payload' = Removed(payload, w)
               /\ ino' = [x \in DOMAIN ino \cup {w} |-> IF x = w THEN InoOf(w) + 1 ELSE ino[x]]
          ELSE UNCHANGED <<payload, ino>>
    /\ results' = Append(results, Result("cleanup", TRUE, 0, workers[k].t.w, <<>>))
    /\ workers' = [workers EXCEPT ![k] = IdleWorker]
    /\ UNCHANGED <<inputVars, unitVars, allocVars, metadata, zst, clients, tasks,
                   available_process_count, main, poolq, cb, temp, histVars>>

(* ----------------------- the Modifier's executor ----------------------- *)
\* the bytes one record line takes in a preloaded warehouse: json.dumps(record)
\* and '\n', followed by one more '\n' in a warehouse written by
\* Builder._warehouse_executor (builder.py:241, `line + '\n'`)
LineWidth(fmt) == IF fmt = "builder" THEN 3 ELSE 2

RECURSIVE SegmentStart(_, _, _)
\* where the k-th segment of an input warehouse starts
SegmentStart(shape, k, fmt) ==
    IF k = 1 THEN 0 ELSE SegmentStart(shape, k - 1, fmt) + LineWidth(fmt) * shape[k - 1]

\* the decompressed input warehouse i and the lines of its metadata file
OldMetadata(fl, i, fmt) ==
    [k \in 1..Len(fl[i]) |->
         IF fmt = "torn" /\ k = 1
         THEN MetadataLine(-1, 0, 0)
         ELSE MetadataLine(ArticleId(i, k), SegmentStart(fl[i], k, fmt),
                           SegmentStart(fl[i], k, fmt) + LineWidth(fmt) * fl[i][k])]

RECURSIVE OldPayloadFrom(_, _, _, _)
OldPayloadFrom(fl, i, k, fmt) ==
    IF k > Len(fl[i]) THEN <<>>
    ELSE [n \in 1..(LineWidth(fmt) * fl[i][k]) |->
              IF n % LineWidth(fmt) = 1
              THEN RecByte(ArticleId(i, k), (n + LineWidth(fmt) - 1) \div LineWidth(fmt))
              ELSE NL]
         \o OldPayloadFrom(fl, i, k + 1, fmt)

OldPayload(fl, i, fmt) == OldPayloadFrom(fl, i, 1, fmt)

RECURSIVE ReadLine(_, _)
\* f.readline() at offset p: up to and including the next '\n'; '' at the end
ReadLine(bytes, p) ==
    IF p >= Len(bytes) THEN <<>>
    ELSE IF bytes[p + 1] = NL THEN <<NL>>
    ELSE <<bytes[p + 1]>> \o ReadLine(bytes, p + 1)

\* None, as a block and as a segment metadata
NoneBlock == [k |-> "none", article_id |-> 0, revision_id |-> 0]
NoneMetadata == MetadataLine(-1, 0, 0)

\* json.loads(line): the record of a line that holds one; JSONDecodeError on
\* '' and on a blank line
json_loads(line) ==
    IF line # <<>> /\ Head(line).k = "rec"
    THEN [raised |-> FALSE,
          value |-> [article_id |-> Head(line).article_id,
                     revision_id |-> Head(line).revision_id]]
    ELSE [raised |-> TRUE, value |-> NoneBlock]

\* json.dumps(block) + '\n'
json_dumps_line(block) == <<RecByte(block.article_id, block.revision_id), NL>>

\* a metadata a profile builds (a new dict, not the one it was given)
Relabelled(md) == [md EXCEPT !.id = IF @ < 100 THEN @ + 100 ELSE @]

\* ModifierProfile.block(content, metadata) of the profiles of this model:
\* what it returns, or that it raised
ProfileBlock(kind, content, md) ==
    IF kind = "drop_all"
    THEN [block |-> NoneBlock, metadata |-> md, raised |-> FALSE]
    ELSE IF kind = "drop_rec" /\ content.revision_id = 1
    THEN [block |-> NoneBlock, metadata |-> md, raised |-> FALSE]
    ELSE IF kind = "drop_seg" /\ content.revision_id = 2
    THEN [block |-> content, metadata |-> NoneMetadata, raised |-> FALSE]
    ELSE IF kind = "raise_rec" /\ content.revision_id = 1
    THEN [block |-> NoneBlock, metadata |-> NoneMetadata, raised |-> TRUE]
    ELSE IF kind = "set_meta"
    THEN [block |-> content, metadata |-> Relabelled(md), raised |-> FALSE]
    ELSE [block |-> content, metadata |-> md, raised |-> FALSE]

\* one invocation of block(), as the history `calls` keeps it
Call(orig, n, kind, md) ==
    [article_id |-> orig.article_id, revision_id |-> orig.revision_id,
     n |-> n, kind |-> kind, metadata |-> md]

RECURSIVE RunChain_nobreak(_, _, _, _, _, _)
\* the chain without `if modified_block is None: break`: a None record goes
\* on to the next profile
RunChain_nobreak(chain, n, orig, block, segment_metadata, log) ==
    IF n > Len(chain)
    THEN [block |-> block, skip_segment |-> FALSE, calls |-> log]
    ELSE LET r == ProfileBlock(chain[n], block, segment_metadata)
             log2 == log \cup {Call(orig, n, chain[n], segment_metadata)}
         IN IF r.raised THEN [block |-> NoneBlock, skip_segment |-> FALSE, calls |-> log2]
            ELSE IF r.metadata = NoneMetadata
            THEN [block |-> r.block, skip_segment |-> TRUE, calls |-> log2]
            ELSE RunChain_nobreak(chain, n + 1, orig, r.block, segment_metadata, log2)

RECURSIVE RunChain(_, _, _, _, _, _)
\* modifier.py:225-241, `for modifier in self.modifiers`: every profile is
\* called with metadata=segment_metadata, a variable the loop does not assign
RunChain(chain, n, orig, block, segment_metadata, log) ==
    IF n > Len(chain) \/ block = NoneBlock
    THEN [block |-> block, skip_segment |-> FALSE, calls |-> log]
    ELSE LET r == ProfileBlock(chain[n], block, segment_metadata)
             log2 == log \cup {Call(orig, n, chain[n], segment_metadata)}
         IN IF r.raised THEN [block |-> NoneBlock, skip_segment |-> FALSE, calls |-> log2]
            ELSE IF r.metadata = NoneMetadata
            THEN [block |-> r.block, skip_segment |-> TRUE, calls |-> log2]
            ELSE RunChain(chain, n + 1, orig, r.block, segment_metadata, log2)

RECURSIVE ModifyRecords(_, _, _, _, _, _, _)
\* modifier.py:220-250, `while old_warehouse_file.tell() < old_warehouse_byte_end`:
\* out = what reaches new_warehouse_file; err: json.loads raised on an empty
\* or blank line; skip_segment: the loop was left by `if skip_segment: break`
ModifyRecords(chain, old, p, bend, segment_metadata, out, log) ==
    IF p >= bend THEN [out |-> out, err |-> FALSE, skip_segment |-> FALSE, calls |-> log]
    ELSE LET line == ReadLine(old, p)
             original_block == json_loads(line)
         IN IF original_block.raised
            THEN [out |-> out, err |-> TRUE, skip_segment |-> FALSE, calls |-> log]
            ELSE LET c == RunChain(chain, 1, original_block.value, original_block.value,
                                   segment_metadata, log)
                 IN IF c.skip_segment
                    THEN [out |-> out, err |-> FALSE, skip_segment |-> TRUE, calls |-> c.calls]
                    ELSE ModifyRecords(chain, old, p + Len(line), bend, segment_metadata,
                                       IF c.block = NoneBlock THEN out
                                       ELSE out \o json_dumps_line(c.block),
                                       c.calls)

\* modifier.py:137-167: the input is decompressed into temp/ and the
\* positions of the lines of its metadata file are collected
W_ModifyPrepare(k, j) ==
    /\ Takes(k, j, "modify")
    /\ LET i == poolq[j].file
           lines == OldMetadata(files, i, old_format)
       IN /\ temp' = [temp EXCEPT !.exists = TRUE, !.dec = @ \cup {i}]
          /\ workers' = [workers EXCEPT ![k] =
                 [IdleWorker EXCEPT !.pc = IF lines = <<>> THEN "fin" ELSE "next",
                                    !.t = poolq[j], !.segs = lines]]
    /\ poolq' = RemoveAt(poolq, j)
    /\ UNCHANGED <<inputVars, unitVars, allocVars, fileVars, clients, tasks, available_process_count,
                   main, results, cb, histVars>>

\* _read_next_segment (modifier.py:169-194): assign_warehouse(), open the
\* new warehouse for append, read and parse the next metadata line, tell().
\* An exception (min() of an empty free list, a line that is no JSON) makes
\* it return False with what was assigned still assigned.
W_ModifyNext(k) ==
    /\ Running
    /\ workers[k].pc = "next"
    /\ LET me == workers[k]
           r == assign_warehouse(AllocState)
           fs == OpenedForAppend(r.st.pay, r.w)
       IN /\ available_warehouses' = r.st.avail
          /\ occupied_warehouses' = r.st.occ
          /\ warehouse_indexer' = r.st.idx
          /\ metadata' = r.st.meta
          /\ created' = r.st.made
          /\ IF r.raised
             THEN /\ payload' = r.st.pay
                  /\ workers' = [workers EXCEPT ![k] = [@ EXCEPT !.pc = "fin"]]
             ELSE /\ payload' = fs
                  /\ workers' = [workers EXCEPT ![k] =
                         [@ EXCEPT !.pc = IF Head(me.segs).id < 0 THEN "fin" ELSE "seg",
                                   !.wh = r.w, !.hino = InoOf(r.w),
                                   !.pos = Len(fs[r.w]),
                                   !.cur = Head(me.segs), !.segs = Tail(me.segs)]]
    /\ UNCHANGED <<inputVars, unitVars, zst, ino, clients, tasks, available_process_count,
                   main, poolq, results, cb, temp, sealed, dropped, calls>>

\* modifier.py:211-265: the records of the segment go through the chain
\* into the new warehouse; then, unless an exception ended the loop, the
\* metadata line is written with byte_start and tell()
W_ModifySegment(k) ==
    /\ Running
    /\ workers[k].pc = "seg"
    /\ LET me == workers[k]
           i == me.t.file
           res == IF i \in temp.dec
                  THEN ModifyRecords(modifiers, OldPayload(files, i, old_format),
                                     me.cur.byte_start, me.cur.byte_end, me.cur, <<>>, {})
                  ELSE [out |-> <<>>, err |-> TRUE, skip_segment |-> FALSE, calls |-> {}]
           end == TellAfter(payload, me.wh, me.hino, me.pos, res.out)
       IN /\ payload' = WrittenThrough(payload, me.wh, me.hino, res.out)
          /\ metadata' = IF res.err THEN metadata
                         ELSE MetadataAppended(metadata, me.wh,
                                               MetadataLine(me.cur.id, me.pos, end))
          /\ dropped' = IF res.skip_segment THEN dropped \cup {me.cur.id} ELSE dropped
          /\ calls' = calls \cup res.calls
          /\ workers' = [workers EXCEPT ![k] = [@ EXCEPT !.pc = "rel", !.pos = end]]
    /\ UNCHANGED <<inputVars, unitVars, allocVars, zst, ino, clients, tasks, available_process_count,
                   main, poolq, results, cb, temp, sealed, created>>

\* _on_segment_finished (modifier.py:196-207): close, release_warehouse()
W_ModifyRelease(k) ==
    /\ Running
    /\ workers[k].pc = "rel"
    /\ LET me == workers[k]
           rel == release_warehouse(occupied_warehouses, available_warehouses,
                                    payload, me.wh, max_size, compress)
       IN /\ occupied_warehouses' = rel.occ
          /\ available_warehouses' = rel.avail
          /\ sealed' = IF rel.didSeal THEN sealed \cup {me.wh} ELSE sealed
          /\ workers' = [workers EXCEPT ![k] =
                 [@ EXCEPT !.pc = IF me.segs = <<>> THEN "fin" ELSE "next",
                           !.wh = -1,
                           !.full = IF rel.path # -1 THEN Append(@, rel.path) ELSE @]]
    /\ UNCHANGED <<inputVars, unitVars, warehouse_indexer, fileVars, clients, tasks,
                   available_process_count, main, poolq, results, cb, temp, created, dropped, calls>>

\* modifier.py:269-272: os.remove(decompressed_path) (it raises when the
\* file is gone) and return full_warehouse_paths
W_ModifyFinish(k) ==
    /\ Running
    /\ workers[k].pc = "fin"
    /\ LET i == workers[k].t.file
       IN /\ results' = Append(results, Result("modify", i \in temp.dec, i, -1, workers[k].full))
          /\ temp' = [temp EXCEPT !.dec = @ \ {i}]
    /\ workers' = [workers EXCEPT ![k] = IdleWorker]
    /\ UNCHANGED <<inputVars, unitVars, allocVars, fileVars, clients, tasks, available_process_count,
                   main, poolq, cb, histVars>>

(* --------------------------- the specification ------------------------- *)
WorkerStep ==
    \/ \E j \in 1..MaxProc : W_Decompress(j)
    \/ \E j \in 1..MaxProc : W_Process(j)
    \/ \E k \in DOMAIN workers, j \in 1..MaxProc : W_PackOpen(k, j)
    \/ \E k \in DOMAIN workers : W_PackArticle(k)
    \/ \E k \in DOMAIN workers, j \in 1..MaxProc : W_Cleanup(k, j)
    \/ \E k \in DOMAIN workers : W_CleanupRemove(k)
    \/ \E k \in DOMAIN workers, j \in 1..MaxProc : W_ModifyPrepare(k, j)
    \/ \E k \in DOMAIN workers : W_ModifyNext(k)
    \/ \E k \in DOMAIN workers : W_ModifySegment(k)
    \/ \E k \in DOMAIN workers : W_ModifyRelease(k)
    \/ \E k \in DOMAIN workers : W_ModifyFinish(k)

\* the executors of the Builder
BuilderWorkerStep ==
    \/ \E j \in 1..MaxProc : W_Decompress(j)
    \/ \E j \in 1..MaxProc : W_Process(j)
    \/ \E k \in DOMAIN workers, j \in 1..MaxProc : W_PackOpen(k, j)
    \/ \E k \in DOMAIN workers : W_PackArticle(k)
    \/ \E k \in DOMAIN workers, j \in 1..MaxProc : W_Cleanup(k, j)
    \/ \E k \in DOMAIN workers : W_CleanupRemove(k)

Init == InitPipeline

Next ==
    \/ MainStep
    \/ CallbackStep
    \/ WorkerStep

Spec == Init /\ [][Next]_vars

NextBuilder ==
    \/ MainStep
    \/ CallbackStep
    \/ BuilderWorkerStep

SpecBuilder == InitBuilder /\ [][NextBuilder]_vars

\* The scheduling the claims about termination assume: the main thread, the
\* result-handler thread and the workers all keep running.
Fairness ==
    /\ WF_vars(MainStep)
    /\ WF_vars(CallbackStep)
    /\ WF_vars(WorkerStep)

\* one worker: no two tasks are ever in flight together
InitSerial == InitPipeline /\ num_proc = 1

FairSpec == InitSerial /\ [][Next]_vars /\ Fairness

(* ------------------------------ preload() ------------------------------ *)
\* The directory tree the calls are made on. A path is the number of a node;
\* the numbers follow the order of the path strings, which is the order
\* sorted() puts them in ('.' sorts before '/', '/' before the letters):
\*   1 d/   2 d/.b   3 d/.h/   4 d/.h/e.zst   5 d/a.zst   6 d/s/
\*   7 d/s/.d   8 d/s/c.metadata
\* Path 0 is the empty string.
Tree == <<[parent |-> 0, dir |-> TRUE,  dot |-> FALSE, ext |-> "none"],
          [parent |-> 1, dir |-> FALSE, dot |-> TRUE,  ext |-> "none"],
          [parent |-> 1, dir |-> TRUE,  dot |-> TRUE,  ext |-> "none"],
          [parent |-> 3, dir |-> FALSE, dot |-> FALSE, ext |-> "zst"],
          [parent |-> 1, dir |-> FALSE, dot |-> FALSE, ext |-> "zst"],
          [parent |-> 1, dir |-> TRUE,  dot |-> FALSE, ext |-> "none"],
          [parent |-> 6, dir |-> FALSE, dot |-> TRUE,  ext |-> "none"],
          [parent |-> 6, dir |-> FALSE, dot |-> FALSE, ext |-> "metadata"]>>

Paths == 0..Len(Tree)

\* the trees that can be on disk: an entry exists only inside an existing
\* directory
Disks == {e \in SUBSET DOMAIN Tree :
             \A n \in e : Tree[n].parent = 0 \/ Tree[n].parent \in e}

os_path_exists(p) == p \in pre.exists

os_path_isfile(p) == p \in pre.exists /\ ~Tree[p].dir

\* os.listdir of a directory, split into sub-directories and files
Directories(root) == {n \in pre.exists : Tree[n].parent = root /\ Tree[n].dir}
Filenames(root) == {n \in pre.exists : Tree[n].parent = root /\ ~Tree[n].dir}

RECURSIVE os_walk(_)
\* os.walk(top): the directories visited, top first, then every directory
\* below it (hidden ones included)
os_walk(top) ==
    {top} \cup UNION {os_walk(d) : d \in Directories(top)}

RECURSIVE sorted(_)
\* sorted(list(set(...))): ascending order of the path strings
sorted(S) ==
    IF S = {} THEN <<>>
    ELSE LET m == CHOOSE x \in S : \A y \in S : x <= y
         IN  <<m>> \o sorted(S \ {m})

endswith_extensions(candidate_path, extensions) ==
    IF extensions = {} THEN TRUE
    ELSE Tree[candidate_path].ext \in extensions

\* get_file_list without the `file.startswith('.')` test
get_file_list_keepdots(input_path, extensions) ==
    IF os_path_isfile(input_path) THEN <<input_path>>
    ELSE sorted({f \in UNION {Filenames(root) : root \in os_walk(input_path)} :
                    endswith_extensions(f, extensions)})

\* get_file_list(input_path, extensions) on an existing path; extensions = {}
\* stands for None
get_file_list(input_path, extensions) ==
    IF os_path_isfile(input_path) THEN <<input_path>>
    ELSE LET all_files == {f \in UNION {Filenames(root) : root \in os_walk(input_path)} :
                              ~Tree[f].dot}
         IN  sorted({i \in all_files : endswith_extensions(i, extensions)})

\* preload(path) of the Builder, the Modifier and the Reader
preload(path) ==
    /\ mode = "preload"
    /\ pre.calls < MaxCalls
    /\ IF path = 0
       THEN /\ pre' = [pre EXCEPT !.path = path, !.raised = "ValueError",
                                  !.calls = @ + 1]
            /\ UNCHANGED files
       ELSE IF ~os_path_exists(path)
       THEN /\ pre' = [pre EXCEPT !.path = path, !.raised = "FileNotFoundError",
                                  !.calls = @ + 1]
            /\ UNCHANGED files
       ELSE /\ files' = files \o get_file_list(path, {})
            /\ pre' = [pre EXCEPT !.path = path, !.raised = "none",
                                  !.calls = @ + 1]
    /\ UNCHANGED <<mode, max_size, compress, num_proc, modifiers, old_format, px, gl, ex, lp>>
    /\ UNCHANGED <<allocVars, fileVars, clients, pipeVars, histVars>>

InitPreload ==
    /\ mode = "preload"
    /\ num_proc = 1
    /\ files = <<>>
    /\ modifiers = <<>>
    /\ old_format = "none"
    /\ max_size = BuilderMaxSize
    /\ compress = TRUE
    /\ tasks = <<>>
    /\ InitRun
    /\ pre \in {[exists |-> e, path |-> 0, raised |-> "none", calls |-> 0] :
                   e \in Disks}
    /\ px = NoProcess
    /\ gl = NoGlimpse
    /\ ex = NoExtract
    /\ lp = NoLines

NextPreload == \E path \in Paths : preload(path)

SpecPreload == InitPreload /\ [][NextPreload]_vars

(* ------------------------- _process_executor --------------------------- *)
\* A text is a string of characters: "#" and "R" spell the redirect marker
\* '#REDIRECT', "C" is a category link, "x" is anything else.
RedirectMarker == <<"#", "R">>
Texts == {<<"x">>, <<"x", "C">>, <<"#", "R">>, <<"#", "R", "C">>}

\* a page is the list of the texts of its revisions; an XML file is a list
\* of pages
Pages == UNION {[1..n -> Texts] : n \in 0..MaxPageRevs}

\* a <page> that holds a <title> and nothing else: no <id>, no <revision>
NoIdPage == <<<<"no id">>>>

XmlFiles == UNION {[1..n -> Pages \cup {NoIdPage}] : n \in 1..MaxPages}

RevisionId(n, r) == 10 * n + r

\* the depth-3 nodes of page n, in document order: <title>, <id>, then one
\* <revision> per revision; the <title> alone for a page without <id>
PageItems(n, page) ==
    IF page = NoIdPage
    THEN <<[tag |-> "title", page |-> n, id |-> 0, text |-> <<>>]>>
    ELSE <<[tag |-> "title", page |-> n, id |-> 0, text |-> <<>>],
           [tag |-> "id", page |-> n, id |-> 0, text |-> <<>>]>>
         \o [r \in 1..Len(page) |->
               [tag |-> "revision", page |-> n, id |-> RevisionId(n, r), text |-> page[r]]]

RECURSIVE ItemsFrom(_, _)
ItemsFrom(xml, n) ==
    IF n > Len(xml) THEN <<>> ELSE PageItems(n, xml[n]) \o ItemsFrom(xml, n + 1)

\* what xmltodict.parse(item_depth=3) hands to item_callback, one by one
Items(xml) == ItemsFrom(xml, 1)

\* a Python dict
dict == [k \in {} |-> 0]
SetKey(d, k, v) == [x \in DOMAIN d \cup {k} |-> IF x = k THEN v ELSE d[x]]
DelKey(d, k) == [x \in DOMAIN d \ {k} |-> d[x]]

\* extract_categories(text): the category links of the text, in order
extract_categories(text) == SelectSeq(text, LAMBDA c : c = "C")

\* the locals of _process_executor before the walk; 0 stands for None, and
\* the n-th file pair created is named n
ProcessLocals(xml, fail) ==
    [pc |-> "parse", items |-> Items(xml), pos |-> 1, fail |-> fail,
     article_id |-> 0, article_title |-> 0, article_info |-> dict,
     processed_filepath |-> 0, processed_files |-> <<>>,
     jsonl |-> <<>>, meta |-> <<>>, article |-> <<>>, result |-> <<>>]

\* lines 120-137; `article` remembers which page a file pair was created for
_create_new_article(s, new_article_id) ==
    LET random_id == Len(s.jsonl) + 1
    IN  [s EXCEPT !.article_id = new_article_id,
                  !.article_info = dict,
                  !.processed_filepath = random_id,
                  !.jsonl = Append(@, <<>>),
                  !.meta = Append(@, dict),
                  !.article = Append(@, new_article_id)]

\* lines 139-145 (the None of article_info is the empty dict here: no node
\* of a page reads it before _create_new_article sets it)
_cleanup_article(s) ==
    [s EXCEPT !.article_id = 0, !.article_info = dict, !.article_title = 0,
              !.processed_filepath = 0]

\* lines 147-163
_finalizing_metadata(s) ==
    IF s.article_id = 0 THEN s
    ELSE LET named == SetKey(SetKey(s.article_info, "id", s.article_id),
                             "title", s.article_title)
             info == IF "last_valid_text_content" \in DOMAIN named
                     THEN DelKey(SetKey(named, "categories",
                                   extract_categories(named["last_valid_text_content"])),
                                 "last_valid_text_content")
                     ELSE SetKey(named, "categories", <<>>)
         IN  [s EXCEPT !.article_info = info,
                       !.meta[s.processed_filepath] = info,
                       !.processed_files = Append(@, s.processed_filepath)]

\* lines 192-197: text_content[0] is the first character of the text, which
\* is compared with the whole marker
Remembered(s, item) ==
    IF Len(item.text) > 0 /\ SubSeq(item.text, 1, 1) # RedirectMarker
    THEN [s EXCEPT !.article_info =
             SetKey(SetKey(@, "source_revision", item.id),
                    "last_valid_text_content", item.text)]
    ELSE s

\* _inner_callback whose <title> branch does not call _finalizing_metadata
_inner_callback_nofinal(s, item) ==
    IF item.tag = "title"
    THEN [_cleanup_article(s) EXCEPT !.article_title = item.page]
    ELSE IF item.tag = "id"
    THEN _create_new_article(s, item.page)
    ELSE Remembered([s EXCEPT !.jsonl[s.processed_filepath] =
                                  Append(@, [article_id |-> s.article_id,
                                             revision_id |-> item.id])],
                    item)

\* lines 165-198
_inner_callback(s, item) ==
    IF item.tag = "title"
    THEN [_cleanup_article(_finalizing_metadata(s)) EXCEPT !.article_title = item.page]
    ELSE IF item.tag = "id"
    THEN _create_new_article(s, item.page)
    ELSE Remembered([s EXCEPT !.jsonl[s.processed_filepath] =
                                  Append(@, [article_id |-> s.article_id,
                                             revision_id |-> item.id])],
                    item)

ProcessUnchanged ==
    /\ UNCHANGED <<inputVars, pre, gl, ex, lp>>
    /\ UNCHANGED <<allocVars, fileVars, clients, pipeVars, histVars>>

\* xmltodict.parse delivers the next node to _inner_callback
P_Item ==
    /\ px.pc = "parse"
    /\ px.pos <= Len(px.items)
    /\ px.fail # px.pos
    /\ px' = [_inner_callback(px, px.items[px.pos]) EXCEPT !.pos = px.pos + 1]
    /\ ProcessUnchanged

\* the end of the document: line 209 finalizes the last article
P_ParseEnd ==
    /\ px.pc = "parse"
    /\ px.pos = Len(px.items) + 1
    /\ px.fail # px.pos
    /\ px' = [_finalizing_metadata(px) EXCEPT !.pc = "finally"]
    /\ ProcessUnchanged

\* the XML is malformed from here on: xmltodict.parse raises, and lines
\* 211-213 empty processed_files
P_ParseError ==
    /\ px.pc = "parse"
    /\ px.fail = px.pos
    /\ px' = [px EXCEPT !.processed_files = <<>>, !.pc = "finally"]
    /\ ProcessUnchanged

\* lines 215-224: the XML file is removed and processed_files returned
P_Return ==
    /\ px.pc = "finally"
    /\ px' = [px EXCEPT !.result = px.processed_files, !.pc = "returned"]
    /\ ProcessUnchanged

InitProcess ==
    /\ mode = "process"
    /\ num_proc = 1
    /\ files = <<>>
    /\ modifiers = <<>>
    /\ old_format = "none"
    /\ max_size = BuilderMaxSize
    /\ compress = TRUE
    /\ tasks = <<>>
    /\ InitRun
    /\ pre = NoPreload
    /\ gl = NoGlimpse
    /\ ex = NoExtract
    /\ lp = NoLines
    /\ px \in {ProcessLocals(xml, fail) :
                  xml \in XmlFiles, fail \in 0..(MaxPages * (2 + MaxPageRevs) + 1)}
    /\ px.fail <= Len(px.items) + 1

NextProcess ==
    \/ P_Item
    \/ P_ParseEnd
    \/ P_ParseError
    \/ P_Return

SpecProcess == InitProcess /\ [][NextProcess]_vars

(* -------------------------- Reader.decompress -------------------------- *)
\* A preloaded file of the Reader: a .zst that decompresses, a .zst that
\* zstd rejects, a .metadata file, or a file of another format
ReaderFileKinds == {"zst", "corrupt", "metadata", "other"}
ReaderInputs == UNION {[1..n -> ReaderFileKinds] : n \in 1..MaxReaderFiles}

\* what the i-th preloaded file decompresses to
Decompressed(i) == <<RecByte(i, 1), NL>>

RECURSIVE ReaderTasks(_, _)
\* reader.py:188-194: a task for every preloaded file that ends in .zst
ReaderTasks(fl, i) ==
    IF i > Len(fl) THEN <<>>
    ELSE IF fl[i] \in {"zst", "corrupt"}
    THEN <<Task("decompress", i, -1, <<>>)>> \o ReaderTasks(fl, i + 1)
    ELSE ReaderTasks(fl, i + 1)

\* open(output_path, "wb"): the file is created or emptied
Written(fs, i, bytes) ==
    [x \in DOMAIN fs \cup {i} |-> IF x = i THEN bytes ELSE fs[x]]

readerRest == <<mode, max_size, compress, num_proc, files, modifiers, old_format,
                allocVars, metadata, zst, ino, clients, workers, temp, sealed,
                created, calls, unitVars>>

\* reader.py:197-199: `while tasks or ...`, `if tasks and
\* available_process_count > 0` and the read of `available_process_count -= 1`
R_TestTasks ==
    /\ mode = "read"
    /\ main.pc = "loop"
    /\ main' = IF tasks = <<>> THEN [main EXCEPT !.pc = "cond2"]
               ELSE IF available_process_count > 0
               THEN [main EXCEPT !.pc = "dec", !.tmp = available_process_count]
               ELSE main
    /\ UNCHANGED <<readerRest, dropped, payload, tasks, available_process_count, poolq,
                   results, cb>>

\* reader.py:197: `... or available_process_count < self.num_proc`, read
\* after `tasks` was found empty; when it is false decompress() returns
\* (lines 215-221; the pool is neither closed nor joined)
R_TestCount ==
    /\ mode = "read"
    /\ main.pc = "cond2"
    /\ main' = [main EXCEPT !.pc =
           IF available_process_count < num_proc THEN "loop" ELSE "done"]
    /\ UNCHANGED <<readerRest, dropped, payload, tasks, available_process_count, poolq,
                   results, cb>>

\* reader.py:199-208: the write of `available_process_count -= 1`,
\* tasks.pop(0) and apply_async
R_Dispatch ==
    /\ mode = "read"
    /\ main.pc = "dec"
    /\ available_process_count' = main.tmp - 1
    /\ tasks' = Tail(tasks)
    /\ poolq' = Append(poolq, Head(tasks))
    /\ main' = [main EXCEPT !.pc = "loop"]
    /\ UNCHANGED <<readerRest, dropped, payload, results, cb>>

\* _decompress_executor (reader.py:98-132) on a .zst: decompress_zstd opens
\* the output file and copies the stream; when zstd raises, the file stays
\* as far as it was written and [] is returned
R_Decompress(j) ==
    /\ mode = "read"
    /\ Started(j)
    /\ LET i == poolq[j].file
       IN IF files[i] = "zst"
          THEN /\ payload' = Written(payload, i, Decompressed(i))
               /\ results' = Append(results, Result("decompress", TRUE, i, -1, <<i>>))
          ELSE /\ payload' = Written(payload, i, <<>>)
               /\ results' = Append(results, Result("decompress", TRUE, i, -1, <<>>))
    /\ poolq' = RemoveAt(poolq, j)
    /\ UNCHANGED <<readerRest, dropped, tasks, available_process_count, main, cb>>

\* _decompress_executor raises before its try: os.makedirs(output_dir) at
\* line 104 fails (the directory was removed and cannot be made again)
R_MakedirsRaises(j) ==
    /\ mode = "read"
    /\ Started(j)
    /\ results' = Append(results, Result("decompress", FALSE, poolq[j].file, -1, <<>>))
    /\ dropped' = dropped \cup {poolq[j].file}
    /\ poolq' = RemoveAt(poolq, j)
    /\ UNCHANGED <<readerRest, payload, tasks, available_process_count, main, cb>>

\* _success_callback (reader.py:176-180) or _error_callback (182-185), up to
\* the read of `available_process_count += 1`
R_CallbackRead ==
    /\ mode = "read"
    /\ cb.pc = "idle"
    /\ results # <<>>
    /\ results' = Tail(results)
    /\ cb' = [cb EXCEPT !.pc = "wr", !.tmp = available_process_count]
    /\ UNCHANGED <<readerRest, dropped, payload, tasks, available_process_count, main, poolq>>

\* ... and the write
R_CallbackWrite ==
    /\ mode = "read"
    /\ cb.pc = "wr"
    /\ cb.tmp + 1 <= num_proc + MaxExcess
    /\ available_process_count' = cb.tmp + 1
    /\ cb' = IdleCallback
    /\ UNCHANGED <<readerRest, dropped, payload, tasks, main, poolq, results>>

\* Reader(output_dir, num_proc) with its files preloaded, at the main loop
\* of decompress(): prepare_output_dir has emptied output_dir
InitReader ==
    /\ mode = "read"
    /\ num_proc \in 1..MaxProc
    /\ files \in ReaderInputs
    /\ modifiers = <<>>
    /\ old_format = "none"
    /\ max_size = BuilderMaxSize
    /\ compress = TRUE
    /\ tasks = ReaderTasks(files, 1)
    /\ InitRun
    /\ pre = NoPreload
    /\ px = NoProcess
    /\ gl = NoGlimpse
    /\ ex = NoExtract
    /\ lp = NoLines

NextReader ==
    \/ R_TestTasks
    \/ R_TestCount
    \/ R_Dispatch
    \/ \E j \in 1..MaxProc : R_Decompress(j)
    \/ \E j \in 1..MaxProc : R_MakedirsRaises(j)
    \/ R_CallbackRead
    \/ R_CallbackWrite

SpecReader == InitReader /\ [][NextReader]_vars

(* ---------------------------- Reader.glimpse --------------------------- *)
\* A preloaded file as glimpse() sees it: the kinds of the Reader, and a .zst
\* whose first line is no JSON object ("invalid") or that holds no line at
\* all ("empty")
GlimpseFileKinds == ReaderFileKinds \cup {"invalid", "empty"}
GlimpseInputs == UNION {[1..n -> GlimpseFileKinds] : n \in 0..MaxReaderFiles}

\* the directories and the file a glimpse() call touches: <cwd>/.glimpse,
\* <output_dir>/temp, <output_dir>/temp/<random_id> and the decompressed
\* file in it
GlimpsePaths == {".glimpse", "temp", "temp/id", "temp/id/file"}

RECURSIVE Selected(_, _, _)
\* [f for f in self.files if f.endswith('.zst')], as indices into files
Selected(fl, i, kinds) ==
    IF i > Len(fl) THEN <<>>
    ELSE IF fl[i] \in kinds THEN <<i>> \o Selected(fl, i + 1, kinds)
    ELSE Selected(fl, i + 1, kinds)

warehouse_files == Selected(files, 1, GlimpseFileKinds \ {"metadata", "other"})

\* os.makedirs(p, exist_ok=True): what exists afterwards, and what this call
\* made
Made(g, p) == [g EXCEPT !.disk = @ \cup {p}, !.made = @ \cup ({p} \ g.disk)]

\* shutil.rmtree(.glimpse) of cleanup_dir (utils.py:282-299)
cleanup_glimpse_dir(g) == [g EXCEPT !.disk = @ \ {".glimpse"}]

GlimpseUnchanged ==
    /\ UNCHANGED <<inputVars, pre, px, ex, lp>>
    /\ UNCHANGED <<allocVars, fileVars, clients, pipeVars, histVars>>

\* lines 238-240: no file is loaded
G_NoFile ==
    /\ gl.pc = "start"
    /\ files = <<>>
    /\ gl' = [gl EXCEPT !.pc = "returned", !.result = "None"]
    /\ GlimpseUnchanged

\* lines 243-244 with no .zst among the files: the modulo by
\* len(warehouse_files) raises ZeroDivisionError
G_NoWarehouse ==
    /\ gl.pc = "start"
    /\ files # <<>>
    /\ warehouse_files = <<>>
    /\ gl' = [gl EXCEPT !.pc = "raised"]
    /\ GlimpseUnchanged

\* lines 243-251: a .zst is picked at random and <cwd>/.glimpse is made
G_Pick(n) ==
    /\ gl.pc = "start"
    /\ n \in 1..Len(warehouse_files)
    /\ gl' = [Made(gl, ".glimpse") EXCEPT !.pc = "picked",
                                          !.glimpse_path = warehouse_files[n]]
    /\ GlimpseUnchanged

\* line 256, _decompress_executor(glimpse_path, temporarily=True)
\* (reader.py:98-132): it makes <output_dir>/temp and a fresh directory in
\* it and decompresses there; when zstd raises, the output file stays as far
\* as it was written and [] comes back (lines 257-259)
G_Decompress ==
    /\ gl.pc = "picked"
    /\ LET g == Made(Made(Made(gl, "temp"), "temp/id"), "temp/id/file")
       IN gl' = IF files[gl.glimpse_path] = "corrupt"
                THEN [g EXCEPT !.pc = "returned", !.result = "None"]
                ELSE [g EXCEPT !.pc = "decompressed"]
    /\ GlimpseUnchanged

\* lines 261-274: the first line is read; an empty file makes
\* first_block_text[0] raise IndexError, a line that is no {...} returns
\* (None, None), and otherwise .glimpse is cleaned up and the block returned
G_FirstBlock ==
    /\ gl.pc = "decompressed"
    /\ gl' = IF files[gl.glimpse_path] = "empty"
             THEN [gl EXCEPT !.pc = "raised"]
             ELSE IF files[gl.glimpse_path] = "invalid"
             THEN [gl EXCEPT !.pc = "returned", !.result = "None"]
             ELSE [cleanup_glimpse_dir(gl) EXCEPT !.pc = "returned", !.result = "block"]
    /\ GlimpseUnchanged

\* a Reader with its files preloaded; .glimpse and <output_dir>/temp may be
\* there already
InitGlimpse ==
    /\ mode = "glimpse"
    /\ num_proc = 1
    /\ files \in GlimpseInputs
    /\ modifiers = <<>>
    /\ old_format = "none"
    /\ max_size = BuilderMaxSize
    /\ compress = TRUE
    /\ tasks = <<>>
    /\ InitRun
    /\ pre = NoPreload
    /\ px = NoProcess
    /\ gl \in {[pc |-> "start", glimpse_path |-> 0, disk |-> d, made |-> {},
                result |-> "none"] : d \in SUBSET {".glimpse", "temp"}}
    /\ ex = NoExtract
    /\ lp = NoLines

NextGlimpse ==
    \/ G_NoFile
    \/ G_NoWarehouse
    \/ \E n \in 1..MaxReaderFiles : G_Pick(n)
    \/ G_Decompress
    \/ G_FirstBlock

SpecGlimpse == InitGlimpse /\ [][NextGlimpse]_vars


(* ===================================================================== *)
(* SpecChain: the profile chain on the records of one segment            *)
(*                                    src/bloark/modifier.py:220-250     *)
(* ===================================================================== *)

\* the chains a Modifier may hold: 1..MaxChain profiles, in add() order
ChainInputs == UNION {[1..n -> ProfileKinds] : n \in 1..MaxChain}

\* one input warehouse with one segment of 1..SegRecords+1 records
ChainSegments == {<<<<r>>>> : r \in 1..(SegRecords + 1)}

\* the inner loop of _modify_executor on the segment: every record is read
\* and given to the chain; `calls` keeps the block() invocations made
ChainSegment ==
    /\ mode = "chain"
    /\ calls = {}
    /\ LET md == OldMetadata(files, 1, old_format)[1]
           res == ModifyRecords(modifiers, OldPayload(files, 1, old_format),
                                md.byte_start, md.byte_end, md, <<>>, {})
       IN /\ calls' = res.calls
          /\ dropped' = IF res.skip_segment THEN {md.id} ELSE {}
    /\ UNCHANGED <<inputVars, unitVars, allocVars, fileVars, clients, pipeVars, sealed, created>>

InitChain ==
    /\ mode = "chain"
    /\ num_proc = 1
    /\ files \in ChainSegments
    /\ modifiers \in ChainInputs
    /\ old_format = "jsonl"
    /\ max_size = ModifierMaxSize
    /\ compress = TRUE
    /\ tasks = <<>>
    /\ InitRun
    /\ pre = NoPreload
    /\ px = NoProcess
    /\ gl = NoGlimpse
    /\ ex = NoExtract
    /\ lp = NoLines

NextChain == ChainSegment

SpecChain == InitChain /\ [][NextChain]_vars


(* ===================================================================== *)
(* SpecExtract: the decompress and process tasks on <output_dir>/temp    *)
(*                                    src/twb/builder.py:78-96, 198-222  *)
(* ===================================================================== *)

\* the preloaded archives: a directory and a file name, the name as its
\* '.'-separated parts.  preload() may be given two directories, or the same
\* path twice, so a list may hold one name or one path more than once.
ArchiveNames == {<<"a", "xml", "7z">>, <<"b", "xml", "7z">>}
ArchivePaths == {[dir |-> d, name |-> n] : d \in 1..2, n \in ArchiveNames}
ExtractInputs == UNION {[1..n -> ArchivePaths] : n \in 1..MaxArchives}

\* os.path.basename(file_path)
os_path_basename(file_path) == file_path.name

\* '.'.join(archive_filename.split('.')[:-1]), under <output_dir>/temp
decompressed_dir_path(file_path) ==
    SubSeq(os_path_basename(file_path), 1, Len(os_path_basename(file_path)) - 1)

\* the XML file of an archive is named after the archive
XmlOf(file_path) == decompressed_dir_path(file_path)

ExtractUnchanged ==
    /\ UNCHANGED <<inputVars, pre, px, gl, lp>>
    /\ UNCHANGED <<allocVars, fileVars, clients, pipeVars, histVars>>

\* builder.py:84-87, os.makedirs(decompressed_dir_path, exist_ok=True)
X_Makedirs(i) ==
    /\ mode = "extract"
    /\ ex.pc[i] = "start"
    /\ LET d == decompressed_dir_path(files[i])
       IN ex' = [ex EXCEPT !.pc[i] = "made",
                           !.fs = IF d \in DOMAIN @ THEN @
                                  ELSE [x \in DOMAIN @ \cup {d} |->
                                           IF x = d THEN {} ELSE @[x]]]
    /\ ExtractUnchanged

\* builder.py:89-94, z.extractall(path=decompressed_dir_path): the XML file
\* is written, over a file of that name if there is one.  When the directory
\* has been removed in the meantime, py7zr either makes it again or raises.
X_Extract(i, remakes) ==
    /\ mode = "extract"
    /\ ex.pc[i] = "made"
    /\ LET d == decompressed_dir_path(files[i])
           f == [file |-> XmlOf(files[i]), by |-> i]
       IN IF d \in DOMAIN ex.fs \/ remakes
          THEN ex' = [ex EXCEPT
                  !.pc[i] = "extracted",
                  !.fs = [x \in DOMAIN @ \cup {d} |->
                            IF x = d
                            THEN (IF d \in DOMAIN @
                                  THEN {g \in @[d] : g.file # f.file} ELSE {})
                                 \cup {f}
                            ELSE @[x]]]
          ELSE ex' = [ex EXCEPT !.pc[i] = "failed"]
    /\ ExtractUnchanged

\* builder.py:95-96, get_file_list(decompressed_dir_path): the task returns
\* the files it finds in the directory
X_List(i) ==
    /\ mode = "extract"
    /\ ex.pc[i] = "extracted"
    /\ LET d == decompressed_dir_path(files[i])
       IN ex' = [ex EXCEPT !.pc[i] = "listed",
                           !.got[i] = IF d \in DOMAIN ex.fs THEN ex.fs[d] ELSE {}]
    /\ ExtractUnchanged

\* the process task of a file the decompress task returned (builder.py:
\* 200-222): the XML file is opened and, in `finally`, removed, and its
\* directory is removed when nothing is left in it.  A file that is gone
\* makes open() and os.remove() raise.
X_Process(i, g) ==
    /\ mode = "extract"
    /\ ex.pc[i] = "listed"
    /\ g \in ex.got[i]
    /\ LET d == decompressed_dir_path(files[i])
       IN IF d \in DOMAIN ex.fs /\ \E h \in ex.fs[d] : h.file = g.file
          THEN LET left == {h \in ex.fs[d] : h.file # g.file}
               IN ex' = [ex EXCEPT
                       !.pc[i] = "done",
                       !.removed[i] = {h \in ex.fs[d] : h.file = g.file},
                       !.fs = IF left = {}
                              THEN [x \in DOMAIN @ \ {d} |-> @[x]]
                              ELSE [@ EXCEPT ![d] = left]]
          ELSE ex' = [ex EXCEPT !.pc[i] = "failed"]
    /\ ExtractUnchanged

InitExtract ==
    /\ mode = "extract"
    /\ num_proc = MaxProc
    /\ files \in ExtractInputs
    /\ modifiers = <<>>
    /\ old_format = "none"
    /\ max_size = BuilderMaxSize
    /\ compress = TRUE
    /\ tasks = <<>>
    /\ InitRun
    /\ pre = NoPreload
    /\ px = NoProcess
    /\ gl = NoGlimpse
    /\ ex = [pc |-> [i \in DOMAIN files |-> "start"], fs |-> <<>>,
             got |-> [i \in DOMAIN files |-> {}],
             removed |-> [i \in DOMAIN files |-> {}]]
    /\ lp = NoLines

NextExtract ==
    \E i \in DOMAIN files :
        \/ X_Makedirs(i)
        \/ \E remakes \in BOOLEAN : X_Extract(i, remakes)
        \/ X_List(i)
        \/ \E g \in ex.got[i] : X_Process(i, g)

SpecExtract == InitExtract /\ [][NextExtract]_vars

(* ===================================================================== *)
(* SpecLines: get_line_positions and read_line_in_file on one file       *)
(* ===================================================================== *)

\* the files: every sequence of up to MaxFileLen bytes, each a newline or
\* one of two other characters
LineChars == {NL, [k |-> "ch", c |-> "a"], [k |-> "ch", c |-> "b"]}
LineFiles == UNION {[1..n -> LineChars] : n \in 0..MaxFileLen}

RECURSIVE get_line_positions_from(_, _)
\* utils.py:241-248: position = f.tell() before each f.readline(); the loop
\* ends on the '' of the end of the file; a line that was read is appended
\* when len(line) > 0
get_line_positions_from(bytes, position) ==
    LET line == ReadLine(bytes, position)
    IN IF line = <<>> THEN <<>>
       ELSE (IF Len(line) > 0 THEN <<position>> ELSE <<>>)
            \o get_line_positions_from(bytes, position + Len(line))

get_line_positions(bytes) == get_line_positions_from(bytes, 0)

\* utils.py:270-272: f.seek(position); return f.readline()
read_line_in_file(bytes, position) == ReadLine(bytes, position)

LinesUnchanged ==
    /\ UNCHANGED <<inputVars, pre, px, gl, ex>>
    /\ UNCHANGED <<allocVars, fileVars, clients, pipeVars, histVars>>

\* metadata_line_positions = get_line_positions(path), modifier.py:162
L_GetLinePositions ==
    /\ mode = "lines"
    /\ lp.pc = "file"
    /\ lp' = [lp EXCEPT !.pc = "scanned", !.positions = get_line_positions(lp.bytes)]
    /\ LinesUnchanged

\* read_line_in_file(path, positions[i]), as modifier.py:183 does for i = 0
L_ReadLineInFile(i) ==
    /\ mode = "lines"
    /\ lp.pc = "scanned"
    /\ i \in DOMAIN lp.positions
    /\ lp' = [lp EXCEPT !.pc = "read", !.i = i,
                        !.line = read_line_in_file(lp.bytes, lp.positions[i])]
    /\ LinesUnchanged

InitLines ==
    /\ mode = "lines"
    /\ num_proc = 1
    /\ files = <<>>
    /\ modifiers = <<>>
    /\ old_format = "none"
    /\ max_size = BuilderMaxSize
    /\ compress = FALSE
    /\ tasks = <<>>
    /\ InitRun
    /\ pre = NoPreload
    /\ px = NoProcess
    /\ gl = NoGlimpse
    /\ ex = NoExtract
    /\ \E bytes \in LineFiles :
           lp = [pc |-> "file", bytes |-> bytes, positions |-> <<>>, i |-> 0, line |-> <<>>]

NextLines ==
    \/ L_GetLinePositions
    \/ \E i \in 1..MaxFileLen : L_ReadLineInFile(i)

SpecLines == InitLines /\ [][NextLines]_vars

(* ===================================================================== *)
(* The claims                                                            *)
(* ===================================================================== *)
Returned == main.pc = "done"

\* every byte a warehouse name stands for in the output directory
OutputBytes(w) ==
    (IF w \in DOMAIN payload THEN Range(payload[w]) ELSE {})
        \cup (IF w \in DOMAIN zst THEN Range(zst[w]) ELSE {})

AllMetadataLines == UNION {Range(metadata[w]) : w \in DOMAIN metadata}

\* C2 (as claimed): once a profile has returned (_, None) for a record of a
\* segment, the output holds no record of that segment and no metadata line
\* for it.
C2_DroppedSegmentLeavesNothing ==
    \A a \in dropped :
        /\ \A w \in DOMAIN payload \cup DOMAIN zst :
               \A b \in OutputBytes(w) : b.k = "rec" => b.article_id # a
        /\ \A m \in AllMetadataLines : m.id # a

\* C3 (as claimed): whenever the callback thread handles a failed task, the
\* slot the task held is given back: available_process_count goes up by one.
C3_FailedTaskGivesSlotBack ==
    [][CB_Error => available_process_count' = available_process_count + 1]_vars

\* C4 (as claimed): when every dispatched task finishes and every thread
\* keeps running, build() / start() eventually returns.
C4_RunReturns == <>Returned

\* C5 (as claimed): when build() / start() has returned, no <base>.jsonl of
\* max_size or more is left: such a warehouse was sealed and compressed.
\* Stated for the runs that compress (Modifier, Builder with compress=True).
C5_FullWarehousesCompressed ==
    (Returned /\ compress) =>
        \A w \in DOMAIN payload : get_file_size(payload, w) < max_size

\* C6 (as claimed): when Modifier.start() returns after a run without a
\* failed task, every warehouse created is compressed, no <base>.jsonl is
\* left and temp/ is gone.
C6_OnlyCompressedOutput ==
    (Returned /\ mode = "modify") =>
        /\ DOMAIN payload = {}
        /\ Range(created) \subseteq DOMAIN zst
        /\ ~temp.exists

\* the payload a metadata line of warehouse w points into
PayloadOf(w) ==
    IF w \in DOMAIN payload THEN payload[w]
    ELSE IF w \in DOMAIN zst THEN zst[w] ELSE <<>>

\* the bytes of [s, e) are one or more lines, each a record of article a
RecordLinesOf(bytes, s, e, a) ==
    /\ 0 <= s
    /\ s < e
    /\ e <= Len(bytes)
    /\ (e - s) % 2 = 0
    /\ \A n \in (s + 1)..e :
           IF (n - s) % 2 = 1
           THEN bytes[n].k = "rec" /\ bytes[n].article_id = a
           ELSE bytes[n] = NL

\* C7 (as claimed): the byte range of every metadata line holds records of
\* the line's article and nothing else, without a blank line.  (That the
\* range is not empty is C9; this is the claim for the ranges that are not.)
C7_RangeHoldsRecordsOfArticle ==
    \A w \in DOMAIN metadata : \A n \in 1..Len(metadata[w]) :
        metadata[w][n].byte_start < metadata[w][n].byte_end =>
            RecordLinesOf(PayloadOf(w), metadata[w][n].byte_start,
                          metadata[w][n].byte_end, metadata[w][n].id)

\* C8 (as claimed): consecutive metadata lines a, b of one warehouse have
\* a.byte_end <= b.byte_start.
C8_MetadataRangesAscend ==
    \A w \in DOMAIN metadata : \A n \in 1..(Len(metadata[w]) - 1) :
        metadata[w][n].byte_end <= metadata[w][n + 1].byte_start

\* C9 (as claimed): every metadata line has byte_start < byte_end.
C9_NoEmptyRange ==
    \A m \in AllMetadataLines : m.byte_start < m.byte_end

Count(seq, x) == Cardinality({n \in 1..Len(seq) : seq[n] = x})

\* C10 (as claimed): once a warehouse is sealed, no assign_warehouse() or
\* bulk_assign() makes it occupied again and no create_warehouse() makes its
\* name again.
C10_SealedNeverReassigned ==
    [][\A w \in sealed :
           /\ Count(occupied_warehouses', w) <= Count(occupied_warehouses, w)
           /\ Count(created', w) <= Count(created, w)]_vars

(* ------------------------- the Modifier's output ----------------------- *)
\* the (article_id, revision_id) pairs of the preloaded warehouses
InputPairs ==
    UNION {UNION {{<<ArticleId(i, k), r>> : r \in 1..files[i][k]} :
                      k \in 1..Len(files[i])} : i \in 1..Len(files)}

\* the (article_id, revision_id) pairs of the records in the output directory
OutputPairs ==
    UNION {{<<b.article_id, b.revision_id>> : b \in {x \in OutputBytes(w) : x.k = "rec"}} :
               w \in DOMAIN payload \cup DOMAIN zst}

\* the input segments, as (input, index) pairs
InputSegments == {<<i, k>> \in (1..MaxInputs) \X (1..MaxSegments) :
                      i <= Len(files) /\ k <= Len(files[i])}

\* where the output has a metadata line with id a: (warehouse, line number) pairs
OutputSegments(a) ==
    UNION {{<<w, n>> : n \in {x \in 1..Len(metadata[w]) : metadata[w][x].id = a}} :
               w \in DOMAIN metadata}

SegmentLength(m) == m.byte_end - m.byte_start

\* C11 (as claimed): after a run of the Modifier whose every profile returns
\* (record, metadata) unchanged, the output holds exactly the input's
\* (article_id, revision_id) pairs, and every input segment is exactly one
\* output segment with the same id and the same byte_end - byte_start.
C11_IdentityReproducesInput ==
    (Returned /\ mode = "modify" /\ modifiers = <<"keep">>) =>
        /\ OutputPairs = InputPairs
        /\ \A sg \in InputSegments :
               LET old == OldMetadata(files, sg[1], old_format)[sg[2]]
               IN /\ Cardinality(OutputSegments(old.id)) = 1
                  /\ \A o \in OutputSegments(old.id) :
                         SegmentLength(metadata[o[1]][o[2]]) = SegmentLength(old)

\* the revisions of input segment (i, k) for which no profile of the chain
\* returns None as the block, in their order (for chains of profiles that
\* return the block they were given, or None)
KeptRevisions(chain, i, k) ==
    SelectSeq([r \in 1..files[i][k] |-> r],
              LAMBDA r : \A n \in 1..Len(chain) :
                  ProfileBlock(chain[n], [article_id |-> ArticleId(i, k), revision_id |-> r],
                               OldMetadata(files, i, old_format)[k]).block # NoneBlock)

\* the lines json.dumps(record) + '\n' of the revisions revs of article a
RECURSIVE RecordLines(_, _)
RecordLines(a, revs) ==
    IF revs = <<>> THEN <<>>
    ELSE <<RecByte(a, Head(revs)), NL>> \o RecordLines(a, Tail(revs))

\* the bytes of [s, e) hold exactly `lines`
RangeHolds(bytes, s, e, lines) ==
    /\ 0 <= s
    /\ s <= e
    /\ e <= Len(bytes)
    /\ SubSeq(bytes, s + 1, e) = lines

\* C12 (as claimed): when a profile returns (None, m) for some records of a
\* segment and never a None metadata, the new segment holds exactly the
\* other records, in their order, and its length is the original length
\* minus the bytes of the dropped records and their newlines.
C12_DroppedRecordsOnly ==
    (Returned /\ mode = "modify" /\ modifiers \in {<<"drop_rec">>, <<"drop_all">>}) =>
        \A sg \in InputSegments :
            LET old == OldMetadata(files, sg[1], old_format)[sg[2]]
                kept == KeptRevisions(modifiers, sg[1], sg[2])
                gone == files[sg[1]][sg[2]] - Len(kept)
            IN /\ Cardinality(OutputSegments(old.id)) = 1
               /\ \A o \in OutputSegments(old.id) :
                      LET m == metadata[o[1]][o[2]]
                      IN /\ SegmentLength(m) = SegmentLength(old) - 2 * gone
                         /\ RangeHolds(PayloadOf(o[1]), m.byte_start, m.byte_end,
                                       RecordLines(old.id, kept))

\* call d was made before call c, for a record of the same segment
CalledBefore(d, c) ==
    /\ d.article_id = c.article_id
    /\ \/ d.revision_id < c.revision_id
       \/ d.revision_id = c.revision_id /\ d.n < c.n

\* C13 (as claimed): when a profile returns a metadata' that is another
\* object than the metadata it was given, every later block() invocation of
\* the segment (later profiles of the chain for this record, and the
\* profiles run on the following records) is given metadata'.
C13_ReturnedMetadataIsPropagated ==
    \A c, d \in calls :
        (d.kind = "set_meta" /\ CalledBefore(d, c)) => c.metadata = Relabelled(d.metadata)

\* block() was invoked as the n-th profile of the chain on record (a, r)
Invoked(a, r, n) == \E c \in calls : c.article_id = a /\ c.revision_id = r /\ c.n = n

\* C14 (as claimed): when a profile raises on a record, only that record is
\* dropped: no later profile runs on it, the other records of the segment
\* are still read, go through the whole chain and are written, and the
\* segment's metadata line is written.
C14_RaisingProfileDropsOneRecord ==
    (Returned /\ mode = "modify" /\ modifiers \in {<<"raise_rec">>, <<"raise_rec", "keep">>}) =>
        \A sg \in InputSegments :
            LET a == ArticleId(sg[1], sg[2])
                others == [r \in 1..(files[sg[1]][sg[2]] - 1) |-> r + 1]
            IN /\ \A n \in 2..Len(modifiers) : ~Invoked(a, 1, n)
               /\ \A r \in Range(others) : \A n \in 1..Len(modifiers) : Invoked(a, r, n)
               /\ Cardinality(OutputSegments(a)) = 1
               /\ \A o \in OutputSegments(a) :
                      LET m == metadata[o[1]][o[2]]
                      IN RangeHolds(PayloadOf(o[1]), m.byte_start, m.byte_end,
                                    RecordLines(a, others))

\* byte p (counted from 1) of warehouse w lies in the range of a metadata line
CoveredByMetadata(w, p) ==
    /\ w \in DOMAIN metadata
    /\ \E n \in 1..Len(metadata[w]) :
           metadata[w][n].byte_start < p /\ p <= metadata[w][n].byte_end

\* C15 (as claimed): a segment whose handling was aborted by an error leaves
\* no metadata line and none of its bytes: at any time the payload of a
\* warehouse that is not compressed yet consists only of the byte ranges its
\* metadata lines name.
C15_PayloadIsItsSegments ==
    \A w \in DOMAIN payload : \A p \in 1..Len(payload[w]) : CoveredByMetadata(w, p)

(* ---------------------------- split by size ---------------------------- *)
\* the articles of the archives that can be extracted, as (archive, index) pairs
InputArticles == {ik \in (1..MaxArchives) \X (1..MaxArticles) :
                      /\ ik[1] <= Len(files)
                      /\ ~files[ik[1]].bad
                      /\ ik[2] <= Len(files[ik[1]].xml)}

\* every article has a revision, and max_size is no larger than the
\* processed file of any article
EveryArticleFills ==
    \A ik \in InputArticles :
        /\ files[ik[1]].xml[ik[2]] >= 1
        /\ max_size <= Len(ProcessedFile(files, ArticleId(ik[1], ik[2])))

\* C17 (as claimed): when max_size is no larger than the payload of any
\* single article, no warehouse receives more than one segment, and after
\* build() there are as many warehouse_*.jsonl.zst files as articles.
C17_OneWarehousePerArticle ==
    (mode = "build" /\ compress /\ EveryArticleFills) =>
        /\ \A w \in DOMAIN metadata : Len(metadata[w]) <= 1
        /\ Returned => Cardinality(DOMAIN zst) = Cardinality(InputArticles)


(* ------------------------------- preload ------------------------------- *)
RECURSIVE IsUnder(_, _)
\* node n lies under directory d, at any depth
IsUnder(n, d) ==
    /\ Tree[n].parent # 0
    /\ \/ Tree[n].parent = d
       \/ IsUnder(Tree[n].parent, d)

\* the non-dot files that exist under directory d
NonDotFilesUnder(d) ==
    {n \in pre.exists : ~Tree[n].dir /\ ~Tree[n].dot /\ IsUnder(n, d)}

\* what a call added to `files`
Appended == SubSeq(files', Len(files) + 1, Len(files'))

\* C18 (as claimed): every preload(path) call either raises and leaves `files`
\* as it was (ValueError for the empty path, FileNotFoundError for a path
\* that does not exist) or appends its file list to the end of `files`; for
\* a directory that list holds every non-dot file under it, at any depth,
\* exactly once. So `files` is the concatenation, in call order, of the lists
\* of the calls that succeeded.
C18_PreloadConcatenates ==
    [][pre'.calls = pre.calls + 1 =>
        LET path == pre'.path
        IN  IF path = 0
            THEN pre'.raised = "ValueError" /\ files' = files
            ELSE IF path \notin pre.exists
            THEN pre'.raised = "FileNotFoundError" /\ files' = files
            ELSE /\ pre'.raised = "none"
                 /\ Len(files') >= Len(files)
                 /\ SubSeq(files', 1, Len(files)) = files
                 /\ IF Tree[path].dir
                    THEN /\ Range(Appended) = NonDotFilesUnder(path)
                         /\ Len(Appended) = Cardinality(NonDotFilesUnder(path))
                    ELSE Appended = <<path>>]_vars

\* a directory holding dot files was preloaded, its three other files were
\* appended, and a later call with the empty path raised
C18_Witness ==
    /\ mode = "preload"
    /\ {2, 7} \subseteq pre.exists
    /\ files = <<4, 5, 8>>
    /\ pre.calls = 2
    /\ pre.raised = "ValueError"


(* -------------------------- the process stage -------------------------- *)
\* the file pairs whose metadata file has been written by _finalizing_metadata
Finalized == {f \in 1..Len(px.meta) : px.meta[f] # dict}

StartsWithRedirect(text) ==
    /\ Len(text) >= Len(RedirectMarker)
    /\ SubSeq(text, 1, Len(RedirectMarker)) = RedirectMarker

\* the revisions of page n of the XML file that have non-redirect text
NonRedirectRevisions(n) ==
    {it.id : it \in {x \in Range(px.items) :
                        /\ x.tag = "revision"
                        /\ x.page = n
                        /\ Len(x.text) > 0
                        /\ ~StartsWithRedirect(x.text)}}

\* C16 (as claimed): when the XML walk fails mid-stream, the articles that
\* were finalized before the failure are still returned by the process
\* stage (and so go on to a warehouse); only the article being parsed is
\* lost.
C16_FinalizedArticlesSurvive ==
    (px.pc = "returned" /\ px.fail # 0) =>
        \A f \in Finalized : f \in Range(px.result)

\* C20 (as claimed): the metadata of an article none of whose revisions has
\* non-redirect text has categories = [] and no source_revision; a
\* source_revision is always a revision with non-redirect text.
C20_RedirectsAreNotSources ==
    \A f \in Finalized :
        LET info == px.meta[f]
        IN  /\ NonRedirectRevisions(px.article[f]) = {} =>
                  /\ info["categories"] = <<>>
                  /\ "source_revision" \notin DOMAIN info
            /\ "source_revision" \in DOMAIN info =>
                  info["source_revision"] \in NonRedirectRevisions(px.article[f])


(* --------------------------- Reader.decompress ------------------------- *)
\* the tasks handed to the pool whose executor has not finished
InFlight == {poolq[j].file : j \in 1..Len(poolq)}

\* C19 (as claimed): when Reader.decompress() has returned, every task it
\* dispatched has finished and its callback has given the slot back, and
\* every preloaded .zst that decompresses has its decompressed file in
\* output_dir.
C19_ReturnsAfterEveryTask ==
    (mode = "read" /\ Returned) =>
        /\ tasks = <<>>
        /\ InFlight = {}
        /\ \A i \in 1..Len(files) :
              (files[i] = "zst" /\ i \notin dropped)
                  => (i \in DOMAIN payload /\ payload[i] = Decompressed(i))


(* ----------------------------- Reader.glimpse -------------------------- *)
\* C21 (as claimed): when glimpse() has returned, on whichever path, nothing
\* that this call made (a temporary directory or the decompressed file) is
\* left on disk.
C21_GlimpseLeavesNothing ==
    gl.pc = "returned" => gl.made \cap gl.disk = {}


(* ------------------------------ the two loops -------------------------- *)
\* C22 (as claimed): when the first loop of build() / start() is left, the
\* task list is empty, no task is with the pool and no callback is pending
\* or running, so phase 2 finds nothing but the cleanup tasks it enqueues
\* itself and never discards a task as unknown.
C22_PhaseOneDrains ==
    /\ main.pc = "enqueue" => (tasks = <<>> /\ PoolDrained)
    /\ main.pc # "unk"


\* the tasks handed to the pool whose executor has not returned yet
Unfinished == Len(poolq) + Cardinality({k \in DOMAIN workers : workers[k].pc # "idle"})

\* C23 (as claimed): during build() / start() at most num_proc dispatched
\* tasks are unfinished at any moment, and available_process_count stays
\* within 0..num_proc.
C23_CounterWithinBounds ==
    mode \in {"build", "modify"} =>
        /\ Unfinished <= num_proc
        /\ available_process_count \in 0..num_proc


\* a pack or modify task that is running holds warehouse w
HeldByTask(w) ==
    \E k \in DOMAIN workers :
        /\ workers[k].pc # "idle"
        /\ workers[k].t.type \in {"warehouse", "modify"}
        /\ workers[k].wh = w

\* a cleanup task for warehouse w is with the pool
CleanupDispatched(w) ==
    \/ \E j \in 1..Len(poolq) : poolq[j].type = "cleanup" /\ poolq[j].w = w
    \/ \E k \in DOMAIN workers : workers[k].t.type = "cleanup" /\ workers[k].t.w = w

\* C24 (as claimed): no cleanup task is with the pool for a warehouse that a
\* running pack or modify task holds.
C24_NoCleanupOfHeldWarehouse ==
    \A w \in 0..warehouse_indexer : ~(CleanupDispatched(w) /\ HeldByTask(w))


(* ----------------------- the Modifier's warehouses --------------------- *)
\* C25 (as claimed): a modify task releases the warehouse it was assigned
\* before it asks for the next one and before it returns, on every path; a
\* task about to return leaves no warehouse of its own occupied.
C25_ModifyReleasesWhatItAssigned ==
    \A k \in DOMAIN workers :
        (workers[k].t.type = "modify" /\ workers[k].pc \in {"next", "fin"}) =>
            \/ workers[k].wh = -1
            \/ workers[k].wh \notin Range(occupied_warehouses)


\* C26 (as claimed): a segment that fails with a structural error is the
\* only one abandoned; a modify task returns only when every metadata line
\* of its input warehouse has been read, so the segments after the failed
\* one are still handled.
C26_OnlyTheFailedSegmentIsAbandoned ==
    \A k \in DOMAIN workers :
        (workers[k].t.type = "modify" /\ workers[k].pc = "fin") =>
            workers[k].segs = <<>>


(* ----------------------------- the allocator --------------------------- *)
\* C27 (as claimed): bulk_assign gives a file only to a warehouse whose
\* remaining capacity (max_size minus its payload minus what this call has
\* already assigned to it) is at least the file's size, so the remaining
\* capacity of a warehouse never drops below zero during the call.
C27_BulkAssignFits ==
    \A c \in DOMAIN clients :
        \A w \in DOMAIN clients[c].rem : clients[c].rem[w] >= 0


\* caller c has just come back from assign_warehouse() with a warehouse
Assigned(c) ==
    /\ clients[c].pc = "idle"
    /\ clients'[c].pc = "idle"
    /\ clients[c].held \subseteq clients'[c].held
    /\ clients'[c].held # clients[c].held

\* an assign_warehouse() call created a warehouse (bulk_assign creates in
\* its "files" step)
AssignCreated ==
    /\ created' # created
    /\ \A c \in DOMAIN clients : clients[c].pc # "files"

\* C28 (as claimed): the warehouse assign_warehouse() returns is the
\* smallest-index one among those available and not occupied (among those
\* there were at the call, or the one just created when there was none); a
\* warehouse is created only when none was available and not occupied; and
\* the returned warehouse is occupied when the call returns.
C28_AssignPicksSmallestFree ==
    [][LET free == FreeWarehouses(available_warehouses, occupied_warehouses)
       IN /\ \A c \in DOMAIN clients :
                Assigned(c) =>
                    \E w \in clients'[c].held \ clients[c].held :
                        /\ clients'[c].held = clients[c].held \cup {w}
                        /\ occupied_warehouses' = Append(occupied_warehouses, w)
                        /\ IF free # <<>>
                           THEN /\ w = SetMin(Range(free))
                                /\ created' = created
                                /\ available_warehouses' = available_warehouses
                           ELSE /\ created' = Append(created, w)
                                /\ available_warehouses' = Append(available_warehouses, w)
          /\ AssignCreated => free = <<>>]_vars

\* warehouse 1 was created while 0 was held, both have been written and
\* released, and a caller has been given 0 again while 1 was free too
C28_Witness ==
    /\ mode = "warehouse"
    /\ created = <<0, 1>>
    /\ available_warehouses = <<0, 1>>
    /\ occupied_warehouses = <<0>>
    /\ Len(payload[0]) = 1 /\ Len(payload[1]) = 1
    /\ clients[1].held = {}
    /\ clients[2].held = {0}
    /\ \A c \in DOMAIN clients : clients[c].pc = "idle"


\* caller c has just come back from release_warehouse(w)
Released(c, w) ==
    /\ mode = "warehouse"
    /\ clients[c].pc = "idle"
    /\ clients'[c].pc = "idle"
    /\ w \in clients[c].held
    /\ clients'[c].held = clients[c].held \ {w}

\* what that call returned: the payload to compress, or -1 for None
Returned29(w) ==
    release_warehouse(occupied_warehouses, available_warehouses, payload, w,
                      max_size, compress).path

ReleasedAgain(c) ==
    /\ mode = "warehouse"
    /\ Len(clients'[c].again) = Len(clients[c].again) + 1

\* C30 (as claimed): release_warehouse(w) on a warehouse that is not
\* occupied (released before, or a name no warehouse has) leaves available,
\* occupied and the index counter as they were and returns no payload to
\* compress; the call comes back to the caller.
C30_ReleaseOfFreeChangesNothing ==
    [][\A c \in DOMAIN clients :
          /\ ReleasedAgain(c) =>
                LET call == clients'[c].again[Len(clients'[c].again)]
                IN call[1] \notin Range(occupied_warehouses) =>
                       /\ available_warehouses' = available_warehouses
                       /\ occupied_warehouses' = occupied_warehouses
                       /\ warehouse_indexer' = warehouse_indexer
                       /\ call[2] = -1
                       /\ clients'[c].pc = "idle"
          \* the holder's own release, after another caller released w for it
          /\ \A w \in clients[c].held :
                (Released(c, w) /\ w \notin Range(occupied_warehouses)) =>
                       /\ available_warehouses' = available_warehouses
                       /\ occupied_warehouses' = occupied_warehouses
                       /\ warehouse_indexer' = warehouse_indexer
                       /\ Returned29(w) = -1]_vars

\* caller 1 has released warehouse 0 a second time, after it was sealed,
\* and caller 2 has released a name no warehouse has
C30_Witness ==
    /\ mode = "warehouse"
    /\ compress
    /\ created = <<0>>
    /\ sealed = {0}
    /\ Len(payload[0]) = max_size
    /\ clients[1].again = <<<<0, -1>>>>
    /\ clients[2].again = <<<<1, -1>>>>
    /\ occupied_warehouses = <<>>


\* caller c is inside bulk_assign: between its first read of the allocator
\* state and its last update
InsideBulkAssign(c) == mode = "warehouse" /\ clients[c].pc # "idle"

\* C31 (as claimed): assign_warehouse, bulk_assign, release_warehouse and
\* finalize_warehouse each do their whole read-then-update under the one
\* allocator lock, so no two of them interleave: while a caller is inside
\* one of them no other caller is inside one, and available, occupied and
\* the index counter change only by that caller's own steps.
C31_AllocatorOperationsDoNotInterleave ==
    [][\A c \in DOMAIN clients :
          InsideBulkAssign(c) =>
              /\ \A d \in DOMAIN clients \ {c} : ~InsideBulkAssign(d)
              /\ <<available_warehouses, occupied_warehouses, warehouse_indexer>>' #
                     <<available_warehouses, occupied_warehouses, warehouse_indexer>>
                 => clients'[c] # clients[c]]_vars


\* C32 (as claimed): warehouse indices are unique within a run and assigned
\* in creation order: in the list of the warehouses created so far no index
\* occurs twice and a warehouse created later has a larger index.
C32_IndicesUniqueAndIncreasing ==
    \A i, j \in DOMAIN created : i < j => created[i] < created[j]


\* C33 (as claimed): a successor task submitted by a success callback goes to
\* the front of the task list, and what the main loop takes from the list
\* is its front element, which it dispatches to the pool; so a successor is
\* dispatched before every task that was pending when it was submitted, and
\* no input task stands in the list before a successor.
C33_SuccessorsGoFirst ==
    [][(mode \in {"build", "modify"} /\ tasks' # tasks) =>
          \/ /\ cb' # cb
             /\ \E t \in Range(tasks') : tasks' = <<t>> \o tasks
          \/ /\ main.pc = "enqueue"
             /\ Len(tasks') > Len(tasks)
             /\ SubSeq(tasks', 1, Len(tasks)) = tasks
          \/ /\ main.pc = "dec"
             /\ tasks' = Tail(tasks)
             /\ poolq' = Append(poolq, Head(tasks))]_vars


\* what the m-th profile of the chain answers on the record of call c
AnswerOn(m, c) ==
    ProfileBlock(modifiers[m],
                 [article_id |-> c.article_id, revision_id |-> c.revision_id],
                 c.metadata)

\* C34 (as claimed): once a profile of the Modifier's chain returns a None
\* record, or raises, for a record, no later profile of the chain is invoked
\* on that record.
C34_NoProfileAfterNone ==
    \A c \in calls :
        \A m \in 1..(c.n - 1) :
            ~AnswerOn(m, c).raised /\ AnswerOn(m, c).block # NoneBlock

\* a chain whose first profile drops record 1 and whose second is invoked on
\* record 2 only
C34_Witness ==
    /\ mode = "chain"
    /\ modifiers = <<"drop_rec", "keep">>
    /\ files = <<<<2>>>>
    /\ Invoked(11, 1, 1) /\ ~Invoked(11, 1, 2)
    /\ Invoked(11, 2, 1) /\ Invoked(11, 2, 2)


\* the pages of the XML file for which a <title> and then an <id> were seen,
\* in document order
PagesWithId ==
    LET ids == SelectSeq(px.items, LAMBDA it : it.tag = "id")
    IN  [i \in 1..Len(ids) |-> ids[i].page]

\* C35 (as claimed): when the walk of the XML file completes, the process
\* stage returns exactly one file pair per article for which a <title> and
\* then an <id> were seen, in document order, each with its metadata
\* written: the last article and an article without revisions included, a
\* <title> without <id> yielding nothing.
C35_OnePairPerArticle ==
    (mode = "process" /\ px.pc = "returned" /\ px.fail = 0) =>
        /\ Len(px.result) = Len(PagesWithId)
        /\ \A i \in 1..Len(px.result) :
              /\ px.article[px.result[i]] = PagesWithId[i]
              /\ px.result[i] \in Finalized
              /\ px.meta[px.result[i]]["id"] = PagesWithId[i]
              /\ \A j \in 1..Len(px.result) : px.result[i] = px.result[j] => i = j

\* a file whose first page has a <title> only and whose last page has an
\* <id> and no revision: one pair, for the last page
C35_Witness ==
    /\ mode = "process"
    /\ px.pc = "returned"
    /\ px.fail = 0
    /\ px.items = Items(<<NoIdPage, <<>> >>)
    /\ Len(px.result) = 1
    /\ px.article[px.result[1]] = 2
    /\ px.jsonl[px.result[1]] = <<>>


\* task i has made, or is about to use, its directory under temp/
Extracting(i) == ex.pc[i] \in {"made", "extracted", "listed"}

\* C36 (as claimed): no two decompress tasks of one run extract into the
\* same temp directory, also when two preloaded archives have the same file
\* name; so a task is handed, and deletes, only files it extracted itself.
C36_OneTempDirPerTask ==
    mode = "extract" =>
        \A i \in DOMAIN files :
            /\ \A j \in DOMAIN files \ {i} :
                  (Extracting(i) /\ Extracting(j)) =>
                      decompressed_dir_path(files[i]) # decompressed_dir_path(files[j])
            /\ \A g \in ex.got[i] \cup ex.removed[i] : g.by = i


\* the cleanup tasks for warehouse w that are pending, with the pool or
\* running, plus one when w has been compressed by a task that has finished
CleanupsOf(w) ==
    LET IsCleanup(t) == t.type = "cleanup" /\ t.w = w
        running == {k \in DOMAIN workers : workers[k].pc # "idle" /\ IsCleanup(workers[k].t)}
    IN  Len(SelectSeq(tasks, IsCleanup)) + Len(SelectSeq(poolq, IsCleanup))
        + Cardinality(running)
        + (IF w \in DOMAIN zst /\ running = {} THEN 1 ELSE 0)

\* C37 (as claimed): over a whole run with compress on, each warehouse is
\* handed to a cleanup task at most once: phase 2 never schedules a cleanup
\* for a warehouse that release has sealed and scheduled already.
C37_OneCleanupPerWarehouse ==
    (mode \in {"build", "modify"} /\ compress) =>
        \A w \in 0..warehouse_indexer : CleanupsOf(w) <= 1


C39_AvailableAtMostNumProc ==
    (mode = "modify" /\ old_format # "torn") =>
        Len(available_warehouses) <= num_proc


\* two modify tasks hold the two unsealed warehouses at once, after a
\* release has sealed an earlier one
C39_Witness ==
    /\ mode = "modify"
    /\ old_format # "torn"
    /\ num_proc = 2
    /\ Len(available_warehouses) = 2
    /\ Range(occupied_warehouses) = Range(available_warehouses)
    /\ sealed # {}
    /\ \A k \in DOMAIN workers : workers[k].pc = "seg"


\* the offsets at which a line of the file starts and is not empty, and the
\* line that starts at offset p, with its newline when it has one
NonEmptyLineStarts(bytes) ==
    {p \in 0..(Len(bytes) - 1) : (p = 0 \/ bytes[p] = NL) /\ bytes[p + 1] # NL}
LineStartingAt(bytes, p) ==
    LET ends == {q \in (p + 1)..Len(bytes) : bytes[q] = NL} \cup {Len(bytes)}
    IN SubSeq(bytes, p + 1, SetMin(ends))

\* C40 (as claimed): get_line_positions returns, in file order, the start
\* offsets of exactly the non-empty lines of the file (a blank line gives no
\* offset), and read_line_in_file at positions[i] returns the i-th non-empty
\* line.
C40_PositionsOfNonEmptyLines ==
    (mode = "lines" /\ lp.pc \in {"scanned", "read"}) =>
        /\ Range(lp.positions) = NonEmptyLineStarts(lp.bytes)
        /\ \A i, j \in DOMAIN lp.positions : i < j => lp.positions[i] < lp.positions[j]
        /\ lp.pc = "read" =>
               \E p \in NonEmptyLineStarts(lp.bytes) :
                   /\ Cardinality({q \in NonEmptyLineStarts(lp.bytes) : q < p}) = lp.i - 1
                   /\ lp.line = LineStartingAt(lp.bytes, p)

=============================================================================
